---- MODULE Spec2Model ----
(***************************************************************************)
(* The in-memory user directory of internal/services/user_service.go:      *)
(* a map[string]*User guarded by a sync.RWMutex, with the five operations  *)
(* GetUserByID, GetAllUsers, CreateUser, UpdateUser and DeleteUser.        *)
(*                                                                         *)
(* Records live in a heap of addresses, because the store holds *User      *)
(* pointers and hands out pointers to copies. Every caller is a process    *)
(* with a program counter: a call enters (argument validation), takes the  *)
(* lock, runs the body in the steps the source separates (scan, then       *)
(* commit) and returns while releasing the lock.                           *)
(***************************************************************************)
EXTENDS Integers, Sequences, FiniteSets, TLC

VARIABLES
    users,      \* s.users: user ID -> address of the stored User
    heap,       \* address -> User value (the zero User where nothing lives)
    mu,         \* s.mu: [writer: caller holding Lock or NoCaller, readers: set of callers holding RLock,
                \*        pending: caller whose Lock() waits for the readers to leave, or NoCaller]
    clock,      \* the last value time.Now() returned
    pc,         \* caller -> position in its current call
    call,       \* caller -> the call in progress, or the last one made
    user,       \* caller -> the local variable `user` of UpdateUser
    ret,        \* caller -> what its last call returned
    issued,     \* history: every ID ever given to a record
    ghost,      \* history: per call, who overlapped it and who wrote during it
    ref,        \* history: the store of the calls that have returned, applied one at a time
    request,    \* UserHandler: the request being served, with what its UserService is set to return
    response,   \* UserHandler: the status written, and whether the UserService was called
    hUsers,     \* handlers.Handler: the keys of h.users
    objects,    \* handlers.Handler: user ID -> the models.User made with that ID, live or not
    emailIndex, \* handlers.Handler: h.emailIndex, email -> user ID
    hpc,        \* handlers.Handler: request -> position in its handler
    hreq,       \* handlers.Handler: request -> what was asked
    hUser,      \* handlers.Handler: request -> the local variable `user` of UpdateUser
    hres,       \* handlers.Handler: request -> the status answered and the ID of the user made
    store,      \* RateLimiter: client IP -> its RateLimiterEntry (requests, window)
    wallClock,  \* RateLimiter: the time
    rpc,        \* RateLimiter: request -> position in the middleware
    rreq,       \* RateLimiter: request -> clientIP, now, and (history) the window it was counted in
    rout,       \* RateLimiter: request -> the status answered (200 stands for c.Next())
    admitted,   \* RateLimiter, history: <<client IP, window>> -> requests let through
    cfg,        \* httpserver: the configuration NewRouter was given
    hits,       \* httpserver: client IP -> requests httprate has counted in its current period
    served,     \* httpserver: the last request routed and the status it got
    qpc,        \* RequestID: the position of the request, from the middleware to the answer
    qreq,       \* RequestID: the X-Request-ID and X-Correlation-ID headers the client sent
    qctx,       \* RequestID: the values of the request context, by key, and whether it is canceled
    qw,         \* response: the ResponseWriter, its X-Request-ID header, WriteHeader calls, status and request_id of the body
    generated,  \* RequestID, history: the ID the middleware drew from rand, "" when it drew none
    activeConnections, \* statsService: s.activeConnections
    apiStats,   \* statsService: what the last GetAPIStats loaded and reported as active_connections
    cpc,        \* ConnectionsMiddleware: request -> its position in the middleware
    cout,       \* ConnectionsMiddleware, history: request -> how its handler last ended
    gUsers,     \* gin handlers: the package-level slice users
    nextUserID, \* gin handlers: the package-level nextUserID
    gpc,        \* gin handlers: request -> position in its handler
    greq,       \* gin handlers: request -> what was asked
    glocal,     \* gin handlers: request -> its local variables (user, the slice and index it read, the ID it read)
    gres,       \* gin handlers: request -> the status answered
    mainpc,     \* main: its position, from waiting for the signal to "server stopped"
    listener,   \* http.Server: the state of ListenAndServe (starting, listening, closed, failed)
    conn,       \* http.Server: connection -> none, active (a request is being served), done, closed (by Close)
    shutdownErr, \* main: what srv.Shutdown returned (none yet, nil, deadline)
    atShutdown \* main, history: the connections with a request in flight when Shutdown was called

serviceVars == <<users, heap, mu, clock, pc, call, user, ret, issued, ghost, ref>>

handlerVars == <<request, response>>

indexVars == <<hUsers, objects, emailIndex, hpc, hreq, hUser, hres>>

limiterVars == <<store, wallClock, rpc, rreq, rout, admitted>>

routerVars == <<cfg, hits, served>>

requestVars == <<qpc, qreq, qctx, qw, generated>>

statsVars == <<activeConnections, apiStats, cpc, cout>>

ginVars == <<gUsers, nextUserID, gpc, greq, glocal, gres>>

serverVars == <<mainpc, listener, conn, shutdownErr, atShutdown>>

\* what the user service leaves alone
notService == <<handlerVars, indexVars, limiterVars, routerVars, requestVars, statsVars, ginVars, serverVars>>

\* what UserHandler leaves alone
notHandler == <<serviceVars, indexVars, limiterVars, routerVars, requestVars, statsVars, ginVars, serverVars>>

\* what handlers.Handler leaves alone
notIndex == <<serviceVars, handlerVars, limiterVars, routerVars, requestVars, statsVars, ginVars, serverVars>>

\* what the RateLimiter middleware leaves alone
notLimiter == <<serviceVars, handlerVars, indexVars, routerVars, requestVars, statsVars, ginVars, serverVars>>

\* what the chi router leaves alone
notRouter == <<serviceVars, handlerVars, indexVars, limiterVars, requestVars, statsVars, ginVars, serverVars>>

\* what the RequestID middleware and the response package leave alone
notRequest == <<serviceVars, handlerVars, indexVars, limiterVars, routerVars, statsVars, ginVars, serverVars>>

\* what the stats service and ConnectionsMiddleware leave alone
notStats == <<serviceVars, handlerVars, indexVars, limiterVars, routerVars, requestVars, ginVars, serverVars>>

\* what the gin user handlers leave alone
notGin == <<serviceVars, handlerVars, indexVars, limiterVars, routerVars, requestVars, statsVars, serverVars>>

\* what main and its http.Server leave alone
notServer == <<serviceVars, handlerVars, indexVars, limiterVars, routerVars, requestVars, statsVars, ginVars>>

vars == <<serviceVars, handlerVars, indexVars, limiterVars, routerVars, requestVars, statsVars, ginVars, serverVars>>

----------------------------------------------------------------------------
(* Bounds *)

NumCallers == 2
MaxUsers == 3
MaxTime == 1
MaxIndexUsers == 2
MaxClock == 3
MaxCount == 3
MaxRateLimit == 2
MaxConns == 3
MaxGinUsers == 3
MaxNextUserID == 4
MaxActive == 2

Callers == 1..NumCallers

\* the requests that go through ConnectionsMiddleware at one time
Conns == 1..MaxConns

----------------------------------------------------------------------------
(* Values *)

NoCaller == 0

NilErr == "<nil>"
ErrUserNotFound == "user not found"
ErrEmailAlreadyExists == "email already exists"
ErrInvalidUserID == "invalid user ID"
ErrInvalidEmail == "invalid email address"
ErrNameRequired == "name is required"

User(id, email, name, role, createdAt) ==
    [ID |-> id, Email |-> email, Name |-> name, Role |-> role, CreatedAt |-> createdAt]

ZeroUser == User("", "", "", "", 0)

Pad3(s) == IF Len(s) = 1 THEN "00" \o s ELSE IF Len(s) = 2 THEN "0" \o s ELSE s

\* fmt.Sprintf("usr_%03d", n)
FormatID(n) == "usr_" \o Pad3(ToString(n))

JohnEmail == "john.doe@example.com"
JaneEmail == "jane.smith@example.com"
NewEmail == "new@example.com"

\* a value of the updates map: interface{} holding a string, or something else
Str(s) == [s |-> s, isString |-> TRUE]
NotStr == [s |-> "", isString |-> FALSE]
NoUpdates == << >>

\* a type assertion that lets the empty string through
HasFieldAllowEmpty(updates, k) ==
    /\ k \in DOMAIN updates
    /\ updates[k].isString

\* updates[k].(string) with ok && value != ""
HasField(updates, k) ==
    /\ k \in DOMAIN updates
    /\ updates[k].isString
    /\ updates[k].s # ""

\* internal/handlers: a request to UserHandler and what it answered
Request(op, userID, body, outcome) ==
    [op |-> op, userID |-> userID, body |-> body, outcome |-> outcome]

\* a request body: whether it decodes, and the fields it decodes to
JSONBody(json, email, name, role) ==
    [email |-> email, name |-> name, role |-> role, json |-> json]

NoBody == JSONBody(FALSE, "", "", "")

NoRequest == Request("none", "", NoBody, NilErr)

Response(status, called) == [status |-> status, called |-> called]

NoResponse == Response(0, FALSE)

\* handlers.Handler (the store with the email index): a request and its answer
IndexRequest(op, id, email, name) == [id |-> id, email |-> email, name |-> name, op |-> op]

NoIndexRequest == IndexRequest("none", "", "", "")

Answer(status, id) == [id |-> id, status |-> status]

NoAnswer == Answer(0, "")

\* middleware.RateLimiter: a request as the middleware sees it
LimiterRequest(clientIP, now, counted) == [clientIP |-> clientIP, now |-> now, counted |-> counted]

NoLimiterRequest == LimiterRequest("", 0, 0)

\* httpserver.NewRouter: the configuration, and a routed request with its status
Config(enabled, limit) == [RateLimitEnabled |-> enabled, RateLimit |-> limit]

Configs == {Config(enabled, limit) : enabled \in BOOLEAN, limit \in 1..MaxRateLimit}

\* no router built yet
NoConfig == Config(FALSE, 0)

Routed(clientIP, path, status) == [status |-> status, clientIP |-> clientIP, path |-> path]

NoRouted == Routed("", "", 0)

\* the two headers of a request that carry an ID from the client
Headers(xRequestID, xCorrelationID) ==
    [xRequestID |-> xRequestID, xCorrelationID |-> xCorrelationID]

NoHeaders == Headers("", "")

\* a context.Context: the values stored with WithValue, by key, and ctx.Err() # nil
NoContext == [values |-> << >>, canceled |-> FALSE]

\* a key of a context value: Go compares the key's type as well as its value
ContextKey(type, value) == [type |-> type, value |-> value]

\* an http.ResponseWriter that nothing was written to
NoWriter == [status |-> 0, xRequestID |-> "", writeHeaderCalls |-> 0, requestID |-> ""]

\* the part of the map GetAPIStats returns that it computes, with what it loaded
APIStats(loaded, active) == [loaded |-> loaded, active_connections |-> active]

\* GetAPIStats was not called yet
NoAPIStats == APIStats(0, -1)

\* a models.User of the gin handlers, without its time stamps
GinUser(id, name, email) == [ID |-> id, Email |-> email, Name |-> name]

\* a request to the gin user handlers: the id of the path and the JSON body
GinRequest(op, id, email, name) == [id |-> id, email |-> email, name |-> name, op |-> op]

NoGinRequest == GinRequest("none", "", "", "")

\* the local variables of a gin handler
GinLocals(u, snapshot, i, n) == [users |-> snapshot, user |-> u, n |-> n, i |-> i]

NoGinLocals == GinLocals(GinUser(0, "", ""), << >>, 0, 0)

----------------------------------------------------------------------------
(* Inputs *)

SeqLoad ==
    [updates |-> {NoUpdates,
                  "email" :> Str(JohnEmail),
                  ("name" :> Str("Renamed")) @@ ("email" :> Str(JohnEmail)),
                  ("name" :> Str("Renamed")) @@ ("email" :> Str(NewEmail)) @@ ("role" :> Str("admin")),
                  ("name" :> Str("")) @@ ("email" :> Str("")) @@ ("role" :> Str("")),
                  "name" :> NotStr},
     getIDs |-> {"", "usr_001", "usr_002", "usr_003"},
     updateIDs |-> {"", "usr_002", "usr_003"},
     deleteIDs |-> {"", "usr_001", "usr_002", "usr_003"},
     emails |-> {"", JohnEmail, JaneEmail, NewEmail},
     names |-> {"", "New User"}]

\* calls that read and write one record while it is being renamed and re-addressed
LinLoad ==
    [updates |-> {("name" :> Str("Renamed")) @@ ("email" :> Str(NewEmail))},
     getIDs |-> {"usr_001"},
     updateIDs |-> {"usr_001"},
     deleteIDs |-> {"usr_001"},
     emails |-> {NewEmail},
     names |-> {"New User"}]

ConcLoad ==
    [updates |-> {"email" :> Str(NewEmail)},
     getIDs |-> {"usr_001"},
     updateIDs |-> {"usr_001", "usr_002"},
     deleteIDs |-> {"usr_001", "usr_003"},
     emails |-> {NewEmail},
     names |-> {"New User"}]

----------------------------------------------------------------------------
(* The store *)

Live == DOMAIN users

Record(id) == heap[users[id]]

Store == [id \in Live |-> Record(id)]

\* the scan of CreateUser left out
EmailExistsSkipped(email) == FALSE

\* for _, user := range s.users { if user.Email == email ... }
EmailExists(email) == \E id \in Live : Record(id).Email = email

\* the scan of UpdateUser that does not leave out the record being updated
EmailTakenByAnyone(id, email) ==
    \E uid \in Live : Record(uid).Email = email

\* the scan of UpdateUser left out
EmailTakenByOtherSkipped(id, email) == FALSE

\* for uid, u := range s.users { if uid != id && u.Email == email ... }
EmailTakenByOther(id, email) ==
    \E uid \in Live : uid # id /\ Record(uid).Email = email

MapSet(m, k, v) == [x \in DOMAIN m \cup {k} |-> IF x = k THEN v ELSE m[x]]

\* a delete that removes nothing
MapDeleteKept(m, k) == m

MapDelete(m, k) == [x \in DOMAIN m \ {k} |-> m[x]]

----------------------------------------------------------------------------
(* The heap *)

\* An address names the object it holds: the record made for an ID, or the copy
\* handed to a caller (a caller holds at most the one its last call returned).
Nil == [id |-> "", kind |-> "nil", owner |-> NoCaller]

RecordAddr(id) == [id |-> id, kind |-> "record", owner |-> NoCaller]

CopyAddrOf(p) == [id |-> "", kind |-> "copy", owner |-> p]

IDs == {FormatID(n) : n \in 1..(MaxUsers + NumCallers)}

Addrs == {RecordAddr(id) : id \in IDs} \cup {CopyAddrOf(p) : p \in Callers}

Roots(u, loc, r) ==
    ({u[k] : k \in DOMAIN u} \cup {loc[p] : p \in Callers} \cup {r[p].user : p \in Callers})
        \ {Nil}

\* the garbage collector: what nothing references holds nothing
Sweep(h, u, loc, r) ==
    [a \in Addrs |-> IF a \in Roots(u, loc, r) THEN h[a] ELSE ZeroUser]

\* user := &User{ID: id, ...}
Alloc(id) == RecordAddr(id)

\* return user: the stored pointer itself
CopyAddrAliased(a, p) == a

\* userCopy := *user; return &userCopy
CopyAddr(a, p) == CopyAddrOf(p)

----------------------------------------------------------------------------
(* Results and calls *)

Result(u, us, err) == [users |-> us, user |-> u, err |-> err]

NoResult == Result(Nil, << >>, NilErr)

Call(op, id, email, name, updates) ==
    [id |-> id, email |-> email, name |-> name, updates |-> updates, op |-> op]

NoCall == Call("none", "", "", "", NoUpdates)

InCall(p) == pc[p] # "idle"

\* some live record has this email
Held(email) == \E id \in DOMAIN users : heap[users[id]].Email = email

\* History kept with a CreateUser call: was its email free when the call was
\* made (fresh), which callers' CreateUser calls for the same email overlapped
\* it (peers), which other callers changed the store while it ran (writers).
NoGhost == [fresh |-> FALSE, peers |-> {}, writers |-> {}]

SameCreate(c, d) == c.op = "CreateUser" /\ d.op = "CreateUser" /\ c.email = d.email

NoteCall(p, c, accepted) ==
    [x \in Callers |->
        IF x = p
        THEN IF c.op = "CreateUser"
             THEN [fresh |-> ~Held(c.email),
                   peers |-> IF accepted
                             THEN {y \in Callers \ {p} : InCall(y) /\ SameCreate(call[y], c)}
                             ELSE {},
                   writers |-> {}]
             ELSE NoGhost
        ELSE IF accepted /\ InCall(x) /\ SameCreate(call[x], c)
             THEN [ghost[x] EXCEPT !.peers = @ \cup {p}]
             ELSE [ghost[x] EXCEPT !.peers = @ \ {p}]]

NoteWrite(p) ==
    [x \in Callers |->
        IF x # p /\ InCall(x) /\ call[x].op = "CreateUser"
        THEN [ghost[x] EXCEPT !.writers = @ \cup {p}]
        ELSE ghost[x]]

----------------------------------------------------------------------------
(* The methods run one at a time, on a store of User values: what a call     *)
(* returns and what it leaves behind when nothing else runs during it.       *)

\* what a caller sees of a result: the User behind the pointer, the slice, the error
Seen(u, us, err) == [users |-> us, user |-> u, err |-> err]

Outcome(res, after) == [store |-> after, res |-> res]

Refused(m, err) == {Outcome(Seen({}, << >>, err), m)}

SeqGetUserByID(m, id) ==
    IF id = "" THEN Refused(m, ErrInvalidUserID)
    ELSE IF id \notin DOMAIN m THEN Refused(m, ErrUserNotFound)
    ELSE {Outcome(Seen({m[id]}, << >>, NilErr), m)}

SeqGetAllUsers(m) ==
    {Outcome(Seen({}, [i \in 1..Cardinality(DOMAIN m) |-> m[order[i]]], NilErr), m) :
        order \in {f \in [1..Cardinality(DOMAIN m) -> DOMAIN m] :
                    \A i, j \in 1..Cardinality(DOMAIN m) : f[i] = f[j] => i = j}}

SeqCreateUser(m, email, name, t) ==
    IF email = "" THEN Refused(m, ErrInvalidEmail)
    ELSE IF name = "" THEN Refused(m, ErrNameRequired)
    ELSE IF \E id \in DOMAIN m : m[id].Email = email THEN Refused(m, ErrEmailAlreadyExists)
    ELSE LET id == FormatID(Cardinality(DOMAIN m) + 1)
             u == User(id, email, name, "user", t)
         IN {Outcome(Seen({u}, << >>, NilErr), MapSet(m, id, u))}

SeqUpdateUser(m, id, updates) ==
    IF id = "" THEN Refused(m, ErrInvalidUserID)
    ELSE IF id \notin DOMAIN m THEN Refused(m, ErrUserNotFound)
    ELSE LET u1 == IF HasField(updates, "name")
                   THEN [m[id] EXCEPT !.Name = updates["name"].s]
                   ELSE m[id]
             u2 == IF HasField(updates, "email")
                   THEN [u1 EXCEPT !.Email = updates["email"].s]
                   ELSE u1
             u3 == IF HasField(updates, "role")
                   THEN [u2 EXCEPT !.Role = updates["role"].s]
                   ELSE u2
         IN IF /\ HasField(updates, "email")
               /\ \E uid \in DOMAIN m : uid # id /\ m[uid].Email = updates["email"].s
            THEN Refused(MapSet(m, id, u1), ErrEmailAlreadyExists)
            ELSE {Outcome(Seen({u3}, << >>, NilErr), MapSet(m, id, u3))}

SeqDeleteUser(m, id) ==
    IF id = "" THEN Refused(m, ErrInvalidUserID)
    ELSE IF id \notin DOMAIN m THEN Refused(m, ErrUserNotFound)
    ELSE {Outcome(Seen({}, << >>, NilErr), MapDelete(m, id))}

\* the outcomes of call c on store m when time.Now() reads t
SeqOutcomes(c, m, t) ==
    IF c.op = "GetUserByID" THEN SeqGetUserByID(m, c.id)
    ELSE IF c.op = "GetAllUsers" THEN SeqGetAllUsers(m)
    ELSE IF c.op = "CreateUser" THEN SeqCreateUser(m, c.email, c.name, t)
    ELSE IF c.op = "UpdateUser" THEN SeqUpdateUser(m, c.id, c.updates)
    ELSE SeqDeleteUser(m, c.id)

\* every outcome of one call leaves the same store
SeqStore(c, m, t) == (CHOOSE o \in SeqOutcomes(c, m, t) : TRUE).store

\* the reference store once caller p's call has taken effect
Linearized(p, t) == SeqStore(call[p], ref, t)

----------------------------------------------------------------------------
(* s.mu *)

\* Lock() returns only when the readers have left; the writers are kept apart
\* by the mutex they share, see CanAnnounce
CanLock == mu.readers = {}

\* RLock() returns only when no writer holds the mutex and no Lock() is
\* waiting for it: a sync.RWMutex keeps new readers out once a writer waits
CanRLock == mu.writer = NoCaller /\ mu.pending = NoCaller

\* a Lock that keeps no writer out
CanAnnounceAlways == TRUE

\* Lock() first takes the mutex the writers share, and Unlock() gives it back:
\* one writer at a time is waiting for the readers or holding the lock
CanAnnounce == mu.writer = NoCaller /\ mu.pending = NoCaller

Unlock(p) == [mu EXCEPT !.writer = NoCaller]

RUnlock(p) == [mu EXCEPT !.readers = @ \ {p}]

----------------------------------------------------------------------------
(* Construction *)

\* NewUserService: two seeded users, created 24 and 48 hours before now
NewUserService ==
    /\ users = ("usr_001" :> RecordAddr("usr_001")) @@ ("usr_002" :> RecordAddr("usr_002"))
    /\ heap = [a \in Addrs |->
                IF a = RecordAddr("usr_001")
                THEN User("usr_001", JohnEmail, "John Doe", "admin", 0 - 24)
                ELSE IF a = RecordAddr("usr_002")
                THEN User("usr_002", JaneEmail, "Jane Smith", "user", 0 - 48)
                ELSE ZeroUser]
    /\ mu = [readers |-> {}, writer |-> NoCaller, pending |-> NoCaller]
    /\ clock = 0

Init ==
    /\ NewUserService
    /\ pc = [p \in Callers |-> "idle"]
    /\ call = [p \in Callers |-> NoCall]
    /\ user = [p \in Callers |-> Nil]
    /\ ret = [p \in Callers |-> NoResult]
    /\ issued = {"usr_001", "usr_002"}
    /\ ghost = [p \in Callers |-> NoGhost]
    /\ ref = [id \in DOMAIN users |-> heap[users[id]]]
    /\ request = NoRequest
    /\ response = NoResponse
    /\ hUsers = {}
    /\ objects = << >>
    /\ emailIndex = << >>
    /\ hpc = [p \in Callers |-> "idle"]
    /\ hreq = [p \in Callers |-> NoIndexRequest]
    /\ hUser = [p \in Callers |-> ""]
    /\ hres = [p \in Callers |-> NoAnswer]
    /\ store = << >>
    /\ wallClock = 0
    /\ rpc = [p \in Callers |-> "idle"]
    /\ rreq = [p \in Callers |-> NoLimiterRequest]
    /\ rout = [p \in Callers |-> 0]
    /\ admitted = << >>
    /\ cfg = NoConfig
    /\ hits = << >>
    /\ served = NoRouted
    /\ qpc = "idle"
    /\ qreq = NoHeaders
    /\ qctx = NoContext
    /\ qw = NoWriter
    /\ generated = ""
    /\ activeConnections = 0
    /\ apiStats = NoAPIStats
    /\ cpc = [c \in Conns |-> "idle"]
    /\ cout = [c \in Conns |-> "none"]
    /\ gUsers = <<GinUser(1, "John Doe", "john@example.com"), GinUser(2, "Jane Smith", "jane@example.com")>>
    /\ nextUserID = 3
    /\ gpc = [p \in Callers |-> "idle"]
    /\ greq = [p \in Callers |-> NoGinRequest]
    /\ glocal = [p \in Callers |-> NoGinLocals]
    /\ gres = [p \in Callers |-> 0]
    /\ mainpc = "quit"
    /\ listener = "starting"
    /\ conn = [c \in Conns |-> "none"]
    /\ shutdownErr = "none"
    /\ atShutdown = {}

----------------------------------------------------------------------------
(* Entering a call: the checks each method makes before it takes the lock *)

Enter(p, c, err, lockpc) ==
    /\ pc[p] = "idle"
    /\ call' = [call EXCEPT ![p] = c]
    /\ IF err # NilErr
       THEN /\ pc' = pc
            /\ ret' = [ret EXCEPT ![p] = Result(Nil, << >>, err)]
       ELSE /\ pc' = [pc EXCEPT ![p] = lockpc]
            /\ ret' = [ret EXCEPT ![p] = NoResult]
    /\ heap' = Sweep(heap, users, user, ret')
    /\ ghost' = NoteCall(p, c, err = NilErr)
    /\ UNCHANGED <<users, mu, clock, user, issued, ref, notService>>

CallGetUserByID(p, id) ==
    Enter(p, Call("GetUserByID", id, "", "", NoUpdates),
          IF id = "" THEN ErrInvalidUserID ELSE NilErr, "RLock")

CallGetAllUsers(p) ==
    Enter(p, Call("GetAllUsers", "", "", "", NoUpdates), NilErr, "RLock")

\* (the first conjunct is the bound on the store's size, not code)
CallCreateUser(p, email, name) ==
    /\ Cardinality(Live) < MaxUsers \/ EmailExists(email)
    /\ Enter(p, Call("CreateUser", "", email, name, NoUpdates),
             IF email = "" THEN ErrInvalidEmail
             ELSE IF name = "" THEN ErrNameRequired
             ELSE NilErr, "Lock")

\* an UpdateUser that looks the empty ID up
CallUpdateUserUnchecked(p, id, updates) ==
    Enter(p, Call("UpdateUser", id, "", "", updates), NilErr, "Lock")

CallUpdateUser(p, id, updates) ==
    Enter(p, Call("UpdateUser", id, "", "", updates),
          IF id = "" THEN ErrInvalidUserID ELSE NilErr, "Lock")

CallDeleteUser(p, id) ==
    Enter(p, Call("DeleteUser", id, "", "", NoUpdates),
          IF id = "" THEN ErrInvalidUserID ELSE NilErr, "Lock")

\* s.mu.RLock()
RLock(p) ==
    /\ pc[p] = "RLock"
    /\ CanRLock
    /\ mu' = [mu EXCEPT !.readers = @ \cup {p}]
    /\ pc' = [pc EXCEPT ![p] = IF call[p].op = "GetUserByID" THEN "get" ELSE "getall"]
    /\ UNCHANGED <<users, heap, clock, call, user, ret, issued, ghost, ref, notService>>

\* s.mu.Lock(), its first half: the writer is announced and readers that come
\* from now on wait
LockAnnounce(p) ==
    /\ pc[p] = "Lock"
    /\ CanAnnounce
    /\ mu' = [mu EXCEPT !.pending = p]
    /\ UNCHANGED <<users, heap, clock, pc, call, user, ret, issued, ghost, ref, notService>>

\* s.mu.Lock() returns: the readers have left
Lock(p) ==
    /\ pc[p] = "Lock"
    /\ mu.pending = p
    /\ CanLock
    /\ mu' = [mu EXCEPT !.writer = p, !.pending = NoCaller]
    /\ pc' = [pc EXCEPT ![p] = IF call[p].op = "CreateUser" THEN "scan"
                               ELSE IF call[p].op = "UpdateUser" THEN "find"
                               ELSE "delete"]
    /\ UNCHANGED <<users, heap, clock, call, user, ret, issued, ghost, ref, notService>>

----------------------------------------------------------------------------
(* The bodies, under the lock *)

\* time.Now(): no earlier than the last reading
Now == clock..MaxTime

Orders(S) ==
    {f \in [1..Cardinality(S) -> S] : \A i, j \in 1..Cardinality(S) : f[i] = f[j] => i = j}

\* GetUserByID, lines 75-85; the deferred RUnlock runs with the return
GetUserByID(p) ==
    /\ pc[p] = "get"
    /\ LET id == call[p].id IN
       IF id \in Live
       THEN LET a == CopyAddr(users[id], p)
                h == [heap EXCEPT ![a] = heap[users[id]]]
            IN /\ ret' = [ret EXCEPT ![p] = Result(a, << >>, NilErr)]
               /\ heap' = Sweep(h, users, user, ret')
       ELSE /\ ret' = [ret EXCEPT ![p] = Result(Nil, << >>, ErrUserNotFound)]
            /\ heap' = heap
    /\ mu' = RUnlock(p)
    /\ pc' = [pc EXCEPT ![p] = "idle"]
    /\ UNCHANGED <<users, clock, call, user, issued, ghost, ref, notService>>

\* GetAllUsers, lines 89-97: the slice holds User values, in the map's iteration order
GetAllUsers(p) ==
    /\ pc[p] = "getall"
    /\ \E order \in Orders(Live) :
        ret' = [ret EXCEPT ![p] =
                    Result(Nil, [i \in 1..Cardinality(Live) |-> Record(order[i])], NilErr)]
    /\ mu' = RUnlock(p)
    /\ pc' = [pc EXCEPT ![p] = "idle"]
    /\ UNCHANGED <<users, heap, clock, call, user, issued, ghost, ref, notService>>

\* a scan that gives the lock up before the insert
CreateUserScanUnlocked(p) ==
    /\ pc[p] = "scan"
    /\ IF EmailExists(call[p].email)
       THEN /\ ret' = [ret EXCEPT ![p] = Result(Nil, << >>, ErrEmailAlreadyExists)]
            /\ pc' = [pc EXCEPT ![p] = "idle"]
       ELSE /\ pc' = [pc EXCEPT ![p] = "insert"]
            /\ ret' = ret
    /\ mu' = Unlock(p)
    /\ UNCHANGED <<users, heap, clock, call, user, issued, ghost, ref, notService>>

\* CreateUser, lines 114-120: the uniqueness scan
CreateUserScan(p) ==
    /\ pc[p] = "scan"
    /\ IF EmailExists(call[p].email)
       THEN /\ ret' = [ret EXCEPT ![p] = Result(Nil, << >>, ErrEmailAlreadyExists)]
            /\ mu' = Unlock(p)
            /\ pc' = [pc EXCEPT ![p] = "idle"]
       ELSE /\ pc' = [pc EXCEPT ![p] = "insert"]
            /\ UNCHANGED <<ret, mu>>
    /\ UNCHANGED <<users, heap, clock, call, user, issued, ghost, ref, notService>>

\* CreateUser, line 123
NewID == FormatID(Cardinality(Live) + 1)

\* the default role left out
NewUserNoRole(id, email, name, t) == User(id, email, name, "", t)

\* CreateUser, lines 125-131
NewUser(id, email, name, t) == User(id, email, name, "user", t)

\* CreateUser, lines 122-141: the ID, the record, the insert and the returned copy
CreateUserInsert(p) ==
    /\ pc[p] = "insert"
    /\ \E t \in Now :
        LET id == NewID
            a == Alloc(id)
            h1 == [heap EXCEPT ![a] = NewUser(id, call[p].email, call[p].name, t)]
            u1 == MapSet(users, id, a)
            b == CopyAddr(a, p)
            h2 == [h1 EXCEPT ![b] = h1[a]]
        IN /\ clock' = t
           /\ users' = u1
           /\ ret' = [ret EXCEPT ![p] = Result(b, << >>, NilErr)]
           /\ heap' = Sweep(h2, users', user, ret')
           /\ issued' = issued \cup {id}
    /\ ghost' = NoteWrite(p)
    /\ mu' = Unlock(p)
    /\ pc' = [pc EXCEPT ![p] = "idle"]
    /\ ref' = Linearized(p, clock')
    /\ UNCHANGED <<call, user, notService>>

\* a lookup whose not-found return leaves the lock held
UpdateUserFindKeepsLock(p) ==
    /\ pc[p] = "find"
    /\ IF call[p].id \in Live
       THEN /\ user' = [user EXCEPT ![p] = users[call[p].id]]
            /\ pc' = [pc EXCEPT ![p] = "check"]
            /\ ret' = ret
       ELSE /\ ret' = [ret EXCEPT ![p] = Result(Nil, << >>, ErrUserNotFound)]
            /\ pc' = [pc EXCEPT ![p] = "idle"]
            /\ user' = user
    /\ UNCHANGED <<users, heap, mu, clock, call, issued, ghost, ref, notService>>

\* UpdateUser, lines 152-155: the lookup
UpdateUserFind(p) ==
    /\ pc[p] = "find"
    /\ IF call[p].id \in Live
       THEN /\ user' = [user EXCEPT ![p] = users[call[p].id]]
            /\ pc' = [pc EXCEPT ![p] = "check"]
            /\ UNCHANGED <<ret, mu>>
       ELSE /\ ret' = [ret EXCEPT ![p] = Result(Nil, << >>, ErrUserNotFound)]
            /\ mu' = Unlock(p)
            /\ pc' = [pc EXCEPT ![p] = "idle"]
            /\ user' = user
    /\ UNCHANGED <<users, heap, clock, call, issued, ghost, ref, notService>>

\* an UpdateUser that writes the email, like the name, before it checks it
UpdateUserCheckWritesEmail(p) ==
    /\ pc[p] = "check"
    /\ LET upd == call[p].updates
           h0 == IF HasField(upd, "name")
                 THEN [heap EXCEPT ![user[p]].Name = upd["name"].s]
                 ELSE heap
           h1 == IF HasField(upd, "email")
                 THEN [h0 EXCEPT ![user[p]].Email = upd["email"].s]
                 ELSE h0
       IN /\ IF HasField(upd, "email") /\ EmailTakenByOther(call[p].id, upd["email"].s)
             THEN /\ ret' = [ret EXCEPT ![p] = Result(Nil, << >>, ErrEmailAlreadyExists)]
                  /\ user' = [user EXCEPT ![p] = Nil]
                  /\ mu' = Unlock(p)
                  /\ pc' = [pc EXCEPT ![p] = "idle"]
             ELSE /\ pc' = [pc EXCEPT ![p] = "commit"]
                  /\ UNCHANGED <<ret, user, mu>>
          /\ heap' = Sweep(h1, users, user', ret')
          /\ ghost' = IF h1 # heap THEN NoteWrite(p) ELSE ghost
    /\ ref' = IF pc'[p] = "idle" THEN Linearized(p, clock) ELSE ref
    /\ UNCHANGED <<users, clock, call, issued, notService>>

\* UpdateUser, lines 158-167: the name is written, then the email is checked
UpdateUserCheck(p) ==
    /\ pc[p] = "check"
    /\ LET upd == call[p].updates
           h1 == IF HasField(upd, "name")
                 THEN [heap EXCEPT ![user[p]].Name = upd["name"].s]
                 ELSE heap
       IN /\ IF HasField(upd, "email") /\ EmailTakenByOther(call[p].id, upd["email"].s)
             THEN /\ ret' = [ret EXCEPT ![p] = Result(Nil, << >>, ErrEmailAlreadyExists)]
                  /\ user' = [user EXCEPT ![p] = Nil]
                  /\ mu' = Unlock(p)
                  /\ pc' = [pc EXCEPT ![p] = "idle"]
             ELSE /\ pc' = [pc EXCEPT ![p] = "commit"]
                  /\ UNCHANGED <<ret, user, mu>>
          /\ heap' = Sweep(h1, users, user', ret')
          /\ ghost' = IF h1 # heap THEN NoteWrite(p) ELSE ghost
    /\ ref' = IF pc'[p] = "idle" THEN Linearized(p, clock) ELSE ref
    /\ UNCHANGED <<users, clock, call, issued, notService>>

\* UpdateUser, lines 168-176: the email and the role are written, the copy returned
UpdateUserCommit(p) ==
    /\ pc[p] = "commit"
    /\ LET upd == call[p].updates
           h1 == IF HasField(upd, "email")
                 THEN [heap EXCEPT ![user[p]].Email = upd["email"].s]
                 ELSE heap
           h2 == IF HasField(upd, "role")
                 THEN [h1 EXCEPT ![user[p]].Role = upd["role"].s]
                 ELSE h1
           b == CopyAddr(user[p], p)
           h3 == [h2 EXCEPT ![b] = h2[user[p]]]
       IN /\ ret' = [ret EXCEPT ![p] = Result(b, << >>, NilErr)]
          /\ user' = [user EXCEPT ![p] = Nil]
          /\ heap' = Sweep(h3, users, user', ret')
          /\ ghost' = IF h2 # heap THEN NoteWrite(p) ELSE ghost
    /\ mu' = Unlock(p)
    /\ pc' = [pc EXCEPT ![p] = "idle"]
    /\ ref' = Linearized(p, clock)
    /\ UNCHANGED <<users, clock, call, issued, notService>>

\* a delete that answers nil for an ID that is not there
DeleteUserIdempotent(p) ==
    /\ pc[p] = "delete"
    /\ users' = MapDelete(users, call[p].id)
    /\ ret' = [ret EXCEPT ![p] = Result(Nil, << >>, NilErr)]
    /\ ghost' = NoteWrite(p)
    /\ heap' = Sweep(heap, users', user, ret')
    /\ mu' = Unlock(p)
    /\ pc' = [pc EXCEPT ![p] = "idle"]
    /\ ref' = Linearized(p, clock)
    /\ UNCHANGED <<clock, call, user, issued, notService>>

\* DeleteUser, lines 188-198
DeleteUser(p) ==
    /\ pc[p] = "delete"
    /\ IF call[p].id \in Live
       THEN /\ users' = MapDelete(users, call[p].id)
            /\ ret' = [ret EXCEPT ![p] = Result(Nil, << >>, NilErr)]
            /\ ghost' = NoteWrite(p)
       ELSE /\ ret' = [ret EXCEPT ![p] = Result(Nil, << >>, ErrUserNotFound)]
            /\ UNCHANGED <<users, ghost>>
    /\ heap' = Sweep(heap, users', user, ret')
    /\ mu' = Unlock(p)
    /\ pc' = [pc EXCEPT ![p] = "idle"]
    /\ ref' = Linearized(p, clock)
    /\ UNCHANGED <<clock, call, user, issued, notService>>

----------------------------------------------------------------------------
(* The caller writes to what it was given *)

\* user1.Name = "Modified Outside"
MutateReturnedUser(p) ==
    /\ pc[p] = "idle"
    /\ ret[p].user # Nil
    /\ heap' = [heap EXCEPT ![ret[p].user].Name = "Modified Outside"]
    /\ UNCHANGED <<users, mu, clock, pc, call, user, ret, issued, ghost, ref, notService>>

\* users[0].Email = "modified@example.com"
MutateReturnedSlice(p) ==
    /\ pc[p] = "idle"
    /\ Len(ret[p].users) > 0
    /\ ret' = [ret EXCEPT ![p].users[1].Email = "modified@example.com"]
    /\ UNCHANGED <<users, heap, mu, clock, pc, call, user, issued, ghost, ref, notService>>

----------------------------------------------------------------------------
(* Specifications *)

Step(p, load) ==
    \/ \E id \in load.getIDs : CallGetUserByID(p, id)
    \/ CallGetAllUsers(p)
    \/ \E email \in load.emails, name \in load.names : CallCreateUser(p, email, name)
    \/ \E id \in load.updateIDs, updates \in load.updates : CallUpdateUser(p, id, updates)
    \/ \E id \in load.deleteIDs : CallDeleteUser(p, id)
    \/ RLock(p)
    \/ LockAnnounce(p)
    \/ Lock(p)
    \/ GetUserByID(p)
    \/ GetAllUsers(p)
    \/ CreateUserScan(p)
    \/ CreateUserInsert(p)
    \/ UpdateUserFind(p)
    \/ UpdateUserCheck(p)
    \/ UpdateUserCommit(p)
    \/ DeleteUser(p)
    \/ MutateReturnedUser(p)
    \/ MutateReturnedSlice(p)

MainCaller == CHOOSE p \in Callers : \A q \in Callers : p <= q

\* one caller, one call after the other, every input
Next == Step(MainCaller, SeqLoad)

Spec == Init /\ [][Next]_vars

\* concurrent callers
NextConc == \E p \in Callers : Step(p, ConcLoad)

SpecConc == Init /\ [][NextConc]_vars

\* concurrent callers on one record
NextLin == \E p \in Callers : Step(p, LinLoad)

SpecLin == Init /\ [][NextLin]_vars

\* the steps of a method body, which a running goroutine takes
Body(p) ==
    \/ GetUserByID(p)
    \/ GetAllUsers(p)
    \/ CreateUserScan(p)
    \/ CreateUserInsert(p)
    \/ UpdateUserFind(p)
    \/ UpdateUserCheck(p)
    \/ UpdateUserCommit(p)
    \/ DeleteUser(p)

\* A goroutine that can run does run. A writer that finds the writers' mutex
\* free again and again gets it (sync.Mutex hands the lock to a waiter that has
\* waited long); once announced it keeps new readers out and has the lock when
\* the readers have left. A reader that waits gets in when the writer leaves:
\* Unlock wakes the waiting readers before another writer is let in.
Fairness ==
    \A p \in Callers :
        /\ WF_vars(Body(p))
        /\ SF_vars(LockAnnounce(p))
        /\ WF_vars(Lock(p))
        /\ SF_vars(RLock(p))

SpecFair == Init /\ [][NextLin]_vars /\ Fairness

----------------------------------------------------------------------------
(* Properties *)

\* caller p has returned from a call of op
Returned(p, op) == pc[p] = "idle" /\ call[p].op = op

\* this step is the insert of caller p's CreateUser
Inserts(p) == pc[p] = "insert" /\ pc'[p] = "idle"

\* this step ends caller p's DeleteUser body
Deletes(p) == pc[p] = "delete" /\ pc'[p] = "idle"

\* this step is a return of caller p
Returns(p) ==
    /\ pc'[p] = "idle"
    /\ <<pc[p], call[p], ret[p]>> # <<pc'[p], call'[p], ret'[p]>>

\* C1: under any interleaving of CreateUser, UpdateUser and DeleteUser calls of
\* concurrent callers, no two live records have the same Email.
C1_UniqueEmail ==
    \A a, b \in Live : a # b => Record(a).Email # Record(b).Email

\* a writer stands between its scan and its insert while another caller waits
\* for the lock to write the same email
C1_Witness ==
    \E p, q \in Callers :
        /\ p # q
        /\ pc[p] = "insert"
        /\ pc[q] = "Lock"
        /\ \/ SameCreate(call[p], call[q])
           \/ /\ call[q].op = "UpdateUser"
              /\ HasField(call[q].updates, "email")
              /\ call[q].updates["email"].s = call[p].email

\* C2: every successful CreateUser gives the new record an ID that no live
\* record has and that was never issued before.
C2_FreshID ==
    [][\A p \in Callers :
        Inserts(p) => heap'[ret'[p].user].ID \notin (Live \cup issued)]_vars

\* C3: a successful CreateUser adds exactly one live record and leaves every
\* record that was live as it was; no other step adds a live record.
C3_CreateGrowsByOne ==
    [][/\ \A p \in Callers :
            Inserts(p) =>
                /\ Cardinality(DOMAIN users') = Cardinality(Live) + 1
                /\ \A id \in Live : id \in DOMAIN users' /\ heap'[users'[id]] = Record(id)
       /\ (\A p \in Callers : ~Inserts(p)) =>
                Cardinality(DOMAIN users') <= Cardinality(Live)]_vars

\* C4: a CreateUser, UpdateUser or DeleteUser that returns an error leaves the
\* store as it was: the same IDs and the same fields of every record.
C4_FailureChangesNothing ==
    [][\A p \in Callers :
        (/\ Returns(p)
         /\ call'[p].op \in {"CreateUser", "UpdateUser", "DeleteUser"}
         /\ ret'[p].err # NilErr) => Store' = Store]_vars

\* two callers have returned from CreateUser calls for one email that was free
\* when each was made, the calls overlapped, and nobody else wrote meanwhile
Raced(p, q) ==
    /\ p # q
    /\ Returned(p, "CreateUser")
    /\ Returned(q, "CreateUser")
    /\ call[p].email = call[q].email
    /\ q \in ghost[p].peers
    /\ ghost[p].fresh
    /\ ghost[q].fresh
    /\ ghost[p].writers \subseteq {q}
    /\ ghost[q].writers \subseteq {p}

\* C5: of two concurrent CreateUser calls for the same free email exactly one
\* succeeds and the other returns ErrEmailAlreadyExists; a caller that has
\* passed the uniqueness scan still finds the email free when it inserts.
C5_OneCreateWins ==
    /\ \A p, q \in Callers :
        Raced(p, q) => {ret[p].err, ret[q].err} = {NilErr, ErrEmailAlreadyExists}
    /\ \A p \in Callers : pc[p] = "insert" => ~Held(call[p].email)

C5_Witness == \E p, q \in Callers : Raced(p, q)

\* the current or last call of p is a CreateUser whose email a live record held
CreateOfHeldEmail(p) == call[p].op = "CreateUser" /\ ~ghost[p].fresh

\* C6 as stated: CreateUser with an email that a live record holds returns
\* ErrEmailAlreadyExists and a nil user, and the number of live records stays.
C6_HeldEmailRejected ==
    [][\A p \in Callers :
        CreateOfHeldEmail(p)' =>
            /\ Cardinality(DOMAIN users') = Cardinality(Live)
            /\ pc'[p] = "idle" => ret'[p] = Result(Nil, << >>, ErrEmailAlreadyExists)]_vars

\* C6 amended: CreateUser with a non-empty name and an email that a live record
\* holds returns ErrEmailAlreadyExists and a nil user, and the number of live
\* records stays.
C6_HeldEmailRejectedForNamed ==
    [][\A p \in Callers :
        (CreateOfHeldEmail(p)' /\ call'[p].name # "") =>
            /\ Cardinality(DOMAIN users') = Cardinality(Live)
            /\ pc'[p] = "idle" => ret'[p] = Result(Nil, << >>, ErrEmailAlreadyExists)]_vars

C6_Witness ==
    \E p \in Callers :
        /\ Returned(p, "CreateUser")
        /\ CreateOfHeldEmail(p)
        /\ call[p].name # ""
        /\ ret[p].err = ErrEmailAlreadyExists

\* C7: a caller's write to a record it was given by GetUserByID, GetAllUsers,
\* CreateUser or UpdateUser changes nothing in the store.
C7_CopyIsolation ==
    [][(\E p \in Callers : MutateReturnedUser(p) \/ MutateReturnedSlice(p))
        => Store' = Store]_vars

\* a caller has renamed the record it was given, and the stored record of that
\* ID keeps its name
C7_Witness ==
    \E p \in Callers :
        /\ ret[p].user # Nil
        /\ heap[ret[p].user].Name = "Modified Outside"
        /\ heap[ret[p].user].ID \in Live
        /\ Record(heap[ret[p].user].ID).Name # "Modified Outside"

\* C8: after a successful CreateUser(email, name) that returned r, and before
\* any other operation, the record stored under r.ID has that email, that name,
\* the role "user" and the ID r.ID.
C8_CreateThenGet ==
    \A p \in Callers :
        (Returned(p, "CreateUser") /\ ret[p].err = NilErr) =>
            LET id == heap[ret[p].user].ID IN
            /\ id # ""
            /\ id \in Live
            /\ Record(id).Email = call[p].email
            /\ Record(id).Name = call[p].name
            /\ Record(id).Role = "user"
            /\ Record(id).ID = id

C8_Witness ==
    \E p \in Callers : Returned(p, "CreateUser") /\ ret[p].err = NilErr

\* C9: DeleteUser of an ID that is not live (the empty string is no ID: it is
\* refused before the lookup) returns ErrUserNotFound and leaves the store as
\* it was; DeleteUser returns nil only for an ID that was live, which it removes.
C9_DeleteNotIdempotent ==
    [][\A p \in Callers :
        /\ Deletes(p) =>
            IF call[p].id \in Live
            THEN ret'[p].err = NilErr /\ DOMAIN users' = Live \ {call[p].id}
            ELSE ret'[p].err = ErrUserNotFound /\ Store' = Store
        /\ (Returns(p) /\ call'[p].op = "DeleteUser" /\ ret'[p].err = NilErr) =>
            Deletes(p) /\ call[p].id \in Live]_vars

\* a DeleteUser of an ID that was issued and is live no more answered not found
C9_Witness ==
    \E p \in Callers :
        /\ Returned(p, "DeleteUser")
        /\ ret[p].err = ErrUserNotFound
        /\ call[p].id \in issued \ Live

\* C10: right after a successful DeleteUser(id) the ID is not found, and no live
\* record holds the deleted record's email, which is not empty: a CreateUser
\* with that email and a non-empty name passes the checks and the scan.
C10_DeleteFreesEmail ==
    [][\A p \in Callers :
        (Deletes(p) /\ ret'[p].err = NilErr) =>
            LET id == call[p].id
                email == Record(id).Email
            IN /\ id \notin DOMAIN users'
               /\ email # ""
               /\ \A k \in DOMAIN users' : heap'[users'[k]].Email # email]_vars

C10_Witness ==
    \E p \in Callers :
        /\ Returned(p, "DeleteUser")
        /\ ret[p].err = NilErr
        /\ call[p].id \notin Live

\* this step is caller p making a call of GetUserByID, UpdateUser or DeleteUser
\* with the empty ID
CallsWithEmptyID(p) ==
    /\ pc[p] = "idle"
    /\ call'[p].op \in {"GetUserByID", "UpdateUser", "DeleteUser"}
    /\ call'[p].id = ""
    /\ <<pc[p], call[p], ret[p]>> # <<pc'[p], call'[p], ret'[p]>>

\* C11: GetUserByID(""), UpdateUser("", updates) and DeleteUser("") return
\* ErrInvalidUserID in the step that makes the call, whatever the store holds and
\* whatever the updates are: the lock is not taken, the store is not changed,
\* and ErrInvalidUserID is not ErrUserNotFound.
C11_EmptyIDRefused ==
    [][\A p \in Callers :
        CallsWithEmptyID(p) =>
            /\ pc'[p] = "idle"
            /\ ret'[p] = Result(Nil, << >>, ErrInvalidUserID)
            /\ mu' = mu
            /\ users' = users
            /\ Store' = Store
            /\ ErrInvalidUserID # ErrUserNotFound]_vars

\* an UpdateUser of the empty ID with fields to set was refused after the store
\* had changed from its seeded content
C11_Witness ==
    \E p \in Callers :
        /\ Returned(p, "UpdateUser")
        /\ call[p].id = ""
        /\ HasField(call[p].updates, "name")
        /\ ret[p].err = ErrInvalidUserID
        /\ Live # {"usr_001", "usr_002"}

\* caller p's UpdateUser has found its record and asks for an email that a
\* different live record holds
UpdateToHeldEmail(p) ==
    /\ pc[p] = "check"
    /\ call[p].id \in Live
    /\ "email" \in DOMAIN call[p].updates
    /\ call[p].updates["email"].isString
    /\ \E uid \in Live \ {call[p].id} :
            /\ Record(uid).Email = call[p].updates["email"].s
            /\ Record(uid).Email # ""

\* C12: UpdateUser of a live id with an email that a different live record
\* holds returns ErrEmailAlreadyExists and a nil user, the target record keeps
\* its Email, and no record is added or removed.
C12_UpdateToHeldEmailRejected ==
    [][\A p \in Callers :
        UpdateToHeldEmail(p) =>
            /\ pc'[p] = "idle"
            /\ ret'[p] = Result(Nil, << >>, ErrEmailAlreadyExists)
            /\ users' = users
            /\ heap'[users'[call[p].id]].Email = Record(call[p].id).Email]_vars

\* an UpdateUser was refused for an email that another live record holds, and
\* the target's email is not that email
C12_Witness ==
    \E p \in Callers :
        /\ Returned(p, "UpdateUser")
        /\ ret[p] = Result(Nil, << >>, ErrEmailAlreadyExists)
        /\ call[p].id \in Live
        /\ Record(call[p].id).Email # call[p].updates["email"].s
        /\ \E uid \in Live \ {call[p].id} : Record(uid).Email = call[p].updates["email"].s

\* the fields an update can name, and the field of User each one stands for
UpdateKeys == {"name", "email", "role"}

FieldOf(k) == IF k = "name" THEN "Name" ELSE IF k = "email" THEN "Email" ELSE "Role"

\* the updates name field k with a string that is not empty
Provided(updates, k) ==
    k \in DOMAIN updates /\ updates[k].isString /\ updates[k].s # ""

\* this step belongs to the body of caller p's UpdateUser, after the lookup
UpdateWrites(p) == pc[p] \in {"check", "commit"}

\* C13: UpdateUser of a live id changes no field that the updates leave out or
\* give as the empty string, and changes no other record; it never leaves Name,
\* Email or Role empty; and UpdateUser(id, {}) succeeds, changes nothing and
\* returns a record equal to the stored one.
C13_AbsentOrEmptyIsNoChange ==
    [][\A p \in Callers :
        UpdateWrites(p) =>
            LET id == call[p].id
                upd == call[p].updates
            IN /\ users' = users
               /\ \A k \in UpdateKeys :
                    /\ ~Provided(upd, k) => heap'[users'[id]][FieldOf(k)] = Record(id)[FieldOf(k)]
                    /\ heap'[users'[id]][FieldOf(k)] # ""
               /\ \A other \in Live \ {id} : heap'[users'[other]] = Record(other)
               /\ upd = NoUpdates =>
                    /\ Store' = Store
                    /\ pc[p] = "commit" =>
                        /\ pc'[p] = "idle"
                        /\ ret'[p].err = NilErr
                        /\ heap'[ret'[p].user] = Record(id)]_vars

\* an UpdateUser whose three fields were all the empty string has succeeded
C13_Witness ==
    \E p \in Callers :
        /\ Returned(p, "UpdateUser")
        /\ ret[p].err = NilErr
        /\ \A k \in UpdateKeys : k \in DOMAIN call[p].updates /\ call[p].updates[k] = Str("")
        /\ heap[ret[p].user] = Record(call[p].id)

\* this step is the return of a call of caller p
Completes(p) ==
    /\ pc'[p] = "idle"
    /\ pc[p] # "idle" \/ call'[p] # call[p] \/ ret'[p].err # ret[p].err

\* what caller p has in hand
Observed(p) ==
    Seen(IF ret[p].user = Nil THEN {} ELSE {heap[ret[p].user]}, ret[p].users, ret[p].err)

\* C14: the operations are linearizable. Each call takes effect in the one step
\* in which it returns, which lies between its invocation and its response:
\* what it returns is what the method run alone returns on the reference store
\* (the calls that returned before, applied one at a time in that order, with
\* the same reading of the clock), the reference store moves to what that run
\* leaves, and whenever no writer holds the lock the store is the reference store.
C14_Linearizable ==
    [][/\ \A p \in Callers :
            Completes(p) =>
                \E o \in SeqOutcomes(call'[p], ref, clock') :
                    o.res = Observed(p)' /\ o.store = ref'
       /\ mu'.writer = NoCaller => Store' = ref']_vars

\* an UpdateUser has written the name and not yet the email, so that the store
\* is in a state no sequence of whole calls produces, while another caller
\* waits to read that record
C14_Witness ==
    \E p, q \in Callers :
        /\ pc[p] = "commit"
        /\ Store # ref
        /\ pc[q] = "RLock"
        /\ call[q].id = call[p].id

\* caller p has s.mu, for writing or for reading
Holds(p) == mu.writer = p \/ p \in mu.readers

\* C15: under fair scheduling every call of every caller returns, and a caller
\* that is in no call holds no lock: every return path, the error paths too,
\* releases s.mu, so concurrent calls cannot deadlock.
C15_EveryCallReturns ==
    /\ [](\A p \in Callers : pc[p] = "idle" => ~Holds(p))
    /\ \A p \in Callers : (pc[p] # "idle") ~> (pc[p] = "idle")

\* a caller is blocked in Lock while another, whose UpdateUser has failed under
\* the lock before, is inside CreateUser with the lock
C15_Witness ==
    \E p, q \in Callers :
        /\ p # q
        /\ pc[p] = "Lock"
        /\ mu.writer = q
        /\ pc[q] = "insert"
        /\ "usr_001" \notin Live

----------------------------------------------------------------------------
(* UserHandler: the HTTP handlers over a UserService                        *)

StatusOK == 200
StatusCreated == 201
StatusNoContent == 204
StatusBadRequest == 400
StatusNotFound == 404
StatusConflict == 409
StatusInternalServerError == 500

\* an error of the service's own, such as the tests' errors.New("database error")
ErrDatabase == "database error"

\* what a UserService can be made to return
Outcomes ==
    {NilErr, ErrUserNotFound, ErrEmailAlreadyExists, ErrInvalidUserID, ErrInvalidEmail,
     ErrNameRequired, ErrDatabase}

RECURSIVE Repeat(_, _)
RECURSIVE TrimLeft(_)
RECURSIVE TrimRight(_)
RECURSIVE DecimalValue(_)
Repeat(s, n) == IF n = 0 THEN "" ELSE s \o Repeat(s, n - 1)

MaxNameLen == 100

LongName == Repeat("x", MaxNameLen + 1)

\* validate:"email": something before and something after an @
IsEmail(s) == \E i \in 2..(Len(s) - 1) : SubSeq(s, i, i) = "@"

\* validate:"oneof=admin user moderator"
IsRole(s) == s \in {"admin", "user", "moderator"}

\* validate:"min=1,max=100"
IsName(s) == Len(s) >= 1 /\ Len(s) <= MaxNameLen

\* CreateUserRequest: email required,email; name required,min=1,max=100
CreateUserRequestErrors(b) ==
    {k \in {"email"} : b.email = "" \/ ~IsEmail(b.email)}
        \cup {k \in {"name"} : b.name = "" \/ ~IsName(b.name)}

\* UpdateUserRequest: every field omitempty, then email / min=1,max=100 / oneof
UpdateUserRequestErrors(b) ==
    {k \in {"email"} : b.email # "" /\ ~IsEmail(b.email)}
        \cup {k \in {"name"} : b.name # "" /\ ~IsName(b.name)}
        \cup {k \in {"role"} : b.role # "" /\ ~IsRole(b.role)}

\* validate.BindAndValidate: err for a body that does not decode, errs for the
\* fields that fail validation
BindAndValidate(b, fieldErrors) ==
    IF ~b.json THEN [err |-> TRUE, errs |-> {}] ELSE [err |-> FALSE, errs |-> fieldErrors]

UserHandlerGetAllUsers(req) ==
    IF req.outcome # NilErr
    THEN Response(StatusInternalServerError, TRUE)
    ELSE Response(StatusOK, TRUE)

UserHandlerGetUserByID(req) ==
    IF req.userID = "" THEN Response(StatusBadRequest, FALSE)
    ELSE IF req.outcome = NilErr THEN Response(StatusOK, TRUE)
    ELSE IF req.outcome = ErrUserNotFound THEN Response(StatusNotFound, TRUE)
    ELSE Response(StatusInternalServerError, TRUE)

UserHandlerCreateUser(req) ==
    LET bound == BindAndValidate(req.body, CreateUserRequestErrors(req.body)) IN
    IF bound.err THEN Response(StatusBadRequest, FALSE)
    ELSE IF bound.errs # {} THEN Response(StatusBadRequest, FALSE)
    ELSE IF req.outcome = NilErr THEN Response(StatusCreated, TRUE)
    ELSE IF req.outcome = ErrEmailAlreadyExists THEN Response(StatusConflict, TRUE)
    ELSE IF req.outcome = ErrInvalidEmail THEN Response(StatusBadRequest, TRUE)
    ELSE Response(StatusInternalServerError, TRUE)

\* an UpdateUser without the branch for ErrEmailAlreadyExists
UserHandlerUpdateUserNoConflict(req) ==
    LET bound == BindAndValidate(req.body, UpdateUserRequestErrors(req.body)) IN
    IF req.userID = "" THEN Response(StatusBadRequest, FALSE)
    ELSE IF bound.err THEN Response(StatusBadRequest, FALSE)
    ELSE IF bound.errs # {} THEN Response(StatusBadRequest, FALSE)
    ELSE IF req.outcome = NilErr THEN Response(StatusOK, TRUE)
    ELSE IF req.outcome = ErrUserNotFound THEN Response(StatusNotFound, TRUE)
    ELSE Response(StatusInternalServerError, TRUE)

UserHandlerUpdateUser(req) ==
    LET bound == BindAndValidate(req.body, UpdateUserRequestErrors(req.body)) IN
    IF req.userID = "" THEN Response(StatusBadRequest, FALSE)
    ELSE IF bound.err THEN Response(StatusBadRequest, FALSE)
    ELSE IF bound.errs # {} THEN Response(StatusBadRequest, FALSE)
    ELSE IF req.outcome = NilErr THEN Response(StatusOK, TRUE)
    ELSE IF req.outcome = ErrUserNotFound THEN Response(StatusNotFound, TRUE)
    ELSE IF req.outcome = ErrEmailAlreadyExists THEN Response(StatusConflict, TRUE)
    ELSE Response(StatusInternalServerError, TRUE)

UserHandlerDeleteUser(req) ==
    IF req.userID = "" THEN Response(StatusBadRequest, FALSE)
    ELSE IF req.outcome = NilErr THEN Response(StatusNoContent, TRUE)
    ELSE IF req.outcome = ErrUserNotFound THEN Response(StatusNotFound, TRUE)
    ELSE Response(StatusInternalServerError, TRUE)

\* the requests served: every path ID, body and service outcome
HandlerLoad ==
    [userIDs |-> {"", "usr_001"},
     bodies |-> {NoBody} \cup
                {JSONBody(TRUE, e, n, r) :
                    e \in {"", "not-an-email", NewEmail},
                    n \in {"", "New User", LongName},
                    r \in {"", "admin", "root"}},
     outcomes |-> Outcomes]

Serve(req, resp) ==
    /\ request' = req
    /\ response' = resp
    /\ UNCHANGED notHandler

ServeGetAllUsers(body, outcome) ==
    LET req == Request("GetAllUsers", "", body, outcome)
    IN Serve(req, UserHandlerGetAllUsers(req))

ServeGetUserByID(userID, body, outcome) ==
    LET req == Request("GetUserByID", userID, body, outcome)
    IN Serve(req, UserHandlerGetUserByID(req))

ServeCreateUser(body, outcome) ==
    LET req == Request("CreateUser", "", body, outcome)
    IN Serve(req, UserHandlerCreateUser(req))

ServeUpdateUser(userID, body, outcome) ==
    LET req == Request("UpdateUser", userID, body, outcome)
    IN Serve(req, UserHandlerUpdateUser(req))

ServeDeleteUser(userID, body, outcome) ==
    LET req == Request("DeleteUser", userID, body, outcome)
    IN Serve(req, UserHandlerDeleteUser(req))

NextHandler ==
    \E userID \in HandlerLoad.userIDs, body \in HandlerLoad.bodies,
       outcome \in HandlerLoad.outcomes :
        \/ ServeGetAllUsers(body, outcome)
        \/ ServeGetUserByID(userID, body, outcome)
        \/ ServeCreateUser(body, outcome)
        \/ ServeUpdateUser(userID, body, outcome)
        \/ ServeDeleteUser(userID, body, outcome)

SpecHandler == Init /\ [][NextHandler]_vars

\* the request was turned away before the service: no path ID where one is
\* needed, a body that does not decode, or a field that fails validation
TurnedAway(req) ==
    \/ req.op \in {"GetUserByID", "UpdateUser", "DeleteUser"} /\ req.userID = ""
    \/ req.op \in {"CreateUser", "UpdateUser"} /\ ~req.body.json
    \/ req.op = "CreateUser" /\ CreateUserRequestErrors(req.body) # {}
    \/ req.op = "UpdateUser" /\ UpdateUserRequestErrors(req.body) # {}

SuccessStatus(op) ==
    IF op = "CreateUser" THEN 201 ELSE IF op = "DeleteUser" THEN 204 ELSE 200

\* the status the claim gives to a service outcome
ClaimedStatus(op, outcome) ==
    IF outcome = NilErr THEN SuccessStatus(op)
    ELSE IF outcome = ErrUserNotFound /\ op \in {"GetUserByID", "UpdateUser", "DeleteUser"} THEN 404
    ELSE IF outcome = ErrEmailAlreadyExists /\ op \in {"CreateUser", "UpdateUser"} THEN 409
    ELSE 500

\* C16 as stated: success gives 201 for CreateUser, 200 for GetUserByID,
\* UpdateUser and GetAllUsers, 204 for DeleteUser; ErrUserNotFound gives 404 and
\* ErrEmailAlreadyExists 409 (where the operation looks a user up, or takes an
\* email); a request turned away gives 400 without a call of the service; any
\* other service error gives 500.
C16_StatusOfOutcome ==
    request.op # "none" =>
        IF TurnedAway(request)
        THEN response = Response(400, FALSE)
        ELSE response = Response(ClaimedStatus(request.op, request.outcome), TRUE)

\* C16 amended: as above, except that ErrInvalidEmail from the service's
\* CreateUser gives 400.
C16_StatusOfOutcomeInvalidEmail ==
    request.op # "none" =>
        IF TurnedAway(request)
        THEN response = Response(400, FALSE)
        ELSE IF request.op = "CreateUser" /\ request.outcome = ErrInvalidEmail
        THEN response = Response(400, TRUE)
        ELSE response = Response(ClaimedStatus(request.op, request.outcome), TRUE)

\* an UpdateUser with a valid body was answered 409 for ErrEmailAlreadyExists
C16_Witness ==
    /\ request.op = "UpdateUser"
    /\ ~TurnedAway(request)
    /\ request.body.email # ""
    /\ request.outcome = ErrEmailAlreadyExists
    /\ response = Response(409, TRUE)

----------------------------------------------------------------------------
(* handlers.Handler: the users map with an email index. Every section under  *)
(* h.mu is one step, so the mutex is free between any two steps; what the    *)
(* handlers do between their locked sections is what the steps separate.     *)

\* uuid.Parse(id) succeeds
IsUUID(id) == Len(id) > 5 /\ SubSeq(id, 1, 5) = "uuid-"

\* uuid.New().String(): an ID no user was made with
NewUUID == "uuid-" \o ToString(Cardinality(DOMAIN objects) + 1)

IndexLoad ==
    [names |-> {"", "New User"},
     ids |-> {"not-a-uuid", "uuid-1"},
     createEmails |-> {"not-an-email", NewEmail},
     updateEmails |-> {"", JohnEmail}]

\* the answer is written and the handler returns
Reply(p, status, id) ==
    /\ hres' = [hres EXCEPT ![p] = Answer(status, id)]
    /\ hpc' = [hpc EXCEPT ![p] = "idle"]

\* the handler goes on
Goto(p, at) ==
    /\ hpc' = [hpc EXCEPT ![p] = at]
    /\ hres' = hres

\* CreateUser, lines 98-110: decode and validate (email required,email; name
\* required,min=1); the first conjunct bounds the users ever made
HandlerCreateUser(p, email, name) ==
    /\ Cardinality(DOMAIN objects)
            + Cardinality({q \in Callers : hpc[q] \in {"createCheck", "createInsert"}})
         < MaxIndexUsers
    /\ hpc[p] = "idle"
    /\ hreq' = [hreq EXCEPT ![p] = IndexRequest("CreateUser", "", email, name)]
    /\ IF ~IsEmail(email) \/ name = ""
       THEN Reply(p, StatusBadRequest, "")
       ELSE /\ hpc' = [hpc EXCEPT ![p] = "createCheck"]
            /\ hres' = [hres EXCEPT ![p] = NoAnswer]
    /\ UNCHANGED <<hUsers, objects, emailIndex, hUser, notIndex>>

\* CreateUser, lines 112-119: the index is read under RLock
HandlerCreateCheck(p) ==
    /\ hpc[p] = "createCheck"
    /\ IF hreq[p].email \in DOMAIN emailIndex
       THEN Reply(p, StatusConflict, "")
       ELSE Goto(p, "createInsert")
    /\ UNCHANGED <<hUsers, objects, emailIndex, hreq, hUser, notIndex>>

\* CreateUser, lines 120-146: the user is made, then put in both maps under Lock
HandlerCreateInsert(p) ==
    /\ hpc[p] = "createInsert"
    /\ LET id == NewUUID IN
        /\ objects' = MapSet(objects, id, [Email |-> hreq[p].email, Name |-> hreq[p].name])
        /\ hUsers' = hUsers \cup {id}
        /\ emailIndex' = MapSet(emailIndex, hreq[p].email, id)
        /\ Reply(p, StatusCreated, id)
    /\ UNCHANGED <<hreq, hUser, notIndex>>

\* UpdateUser, lines 150-156: the path ID
HandlerUpdateUser(p, id, email, name) ==
    /\ hpc[p] = "idle"
    /\ hreq' = [hreq EXCEPT ![p] = IndexRequest("UpdateUser", id, email, name)]
    /\ IF ~IsUUID(id)
       THEN Reply(p, StatusBadRequest, "")
       ELSE /\ hpc' = [hpc EXCEPT ![p] = "updateFind"]
            /\ hres' = [hres EXCEPT ![p] = NoAnswer]
    /\ UNCHANGED <<hUsers, objects, emailIndex, hUser, notIndex>>

\* UpdateUser, lines 158-180: the lookup under RLock, then decode and validate
HandlerUpdateFind(p) ==
    /\ hpc[p] = "updateFind"
    /\ IF hreq[p].id \notin hUsers
       THEN Reply(p, StatusNotFound, "") /\ hUser' = hUser
       ELSE /\ hUser' = [hUser EXCEPT ![p] = hreq[p].id]
            /\ IF hreq[p].email # "" /\ ~IsEmail(hreq[p].email)
               THEN Reply(p, StatusBadRequest, "")
               ELSE Goto(p, "updateCompare")
    /\ UNCHANGED <<hUsers, objects, emailIndex, hreq, notIndex>>

\* UpdateUser, line 182: user.Email is read without the lock
HandlerUpdateCompare(p) ==
    /\ hpc[p] = "updateCompare"
    /\ IF hreq[p].email # "" /\ hreq[p].email # objects[hUser[p]].Email
       THEN Goto(p, "updateCheck")
       ELSE Goto(p, "updateWrite")
    /\ UNCHANGED <<hUsers, objects, emailIndex, hreq, hUser, notIndex>>

\* UpdateUser, lines 183-190: the index is read under RLock
HandlerUpdateCheck(p) ==
    /\ hpc[p] = "updateCheck"
    /\ IF /\ hreq[p].email \in DOMAIN emailIndex
          /\ emailIndex[hreq[p].email] # hreq[p].id
       THEN Reply(p, StatusConflict, "")
       ELSE Goto(p, "updateWrite")
    /\ UNCHANGED <<hUsers, objects, emailIndex, hreq, hUser, notIndex>>

\* UpdateUser, lines 193-203: the writes under Lock, to the user found before
HandlerUpdateWrite(p) ==
    /\ hpc[p] = "updateWrite"
    /\ LET u == hUser[p]
           email == hreq[p].email
           moved == email # "" /\ email # objects[u].Email
           o1 == IF moved THEN [objects EXCEPT ![u].Email = email] ELSE objects
       IN /\ emailIndex' = IF moved
                           THEN MapSet(MapDelete(emailIndex, objects[u].Email), email, u)
                           ELSE emailIndex
          /\ objects' = IF hreq[p].name # ""
                        THEN [o1 EXCEPT ![u].Name = hreq[p].name]
                        ELSE o1
          /\ Reply(p, StatusOK, u)
    /\ UNCHANGED <<hUsers, hreq, hUser, notIndex>>

\* DeleteUser, lines 220-227: the path ID
HandlerDeleteUser(p, id) ==
    /\ hpc[p] = "idle"
    /\ hreq' = [hreq EXCEPT ![p] = IndexRequest("DeleteUser", id, "", "")]
    /\ IF ~IsUUID(id)
       THEN Reply(p, StatusBadRequest, "")
       ELSE /\ hpc' = [hpc EXCEPT ![p] = "delete"]
            /\ hres' = [hres EXCEPT ![p] = NoAnswer]
    /\ UNCHANGED <<hUsers, objects, emailIndex, hUser, notIndex>>

\* DeleteUser, lines 229-244: lookup and both deletes under Lock
HandlerDelete(p) ==
    /\ hpc[p] = "delete"
    /\ IF hreq[p].id \notin hUsers
       THEN /\ Reply(p, StatusNotFound, "")
            /\ UNCHANGED <<hUsers, emailIndex>>
       ELSE /\ emailIndex' = MapDelete(emailIndex, objects[hreq[p].id].Email)
            /\ hUsers' = hUsers \ {hreq[p].id}
            /\ Reply(p, StatusNoContent, "")
    /\ UNCHANGED <<objects, hreq, hUser, notIndex>>

NextIndex ==
    \E p \in Callers :
        \/ \E email \in IndexLoad.createEmails, name \in IndexLoad.names :
                HandlerCreateUser(p, email, name)
        \/ \E id \in IndexLoad.ids, email \in IndexLoad.updateEmails, name \in IndexLoad.names :
                HandlerUpdateUser(p, id, email, name)
        \/ \E id \in IndexLoad.ids : HandlerDeleteUser(p, id)
        \/ HandlerCreateCheck(p)
        \/ HandlerCreateInsert(p)
        \/ HandlerUpdateFind(p)
        \/ HandlerUpdateCompare(p)
        \/ HandlerUpdateCheck(p)
        \/ HandlerUpdateWrite(p)
        \/ HandlerDelete(p)

SpecIndex == Init /\ [][NextIndex]_vars

\* C17: in the store with the email index, under any interleaving of CreateUser,
\* UpdateUser and DeleteUser requests, no two live users have the same Email;
\* in particular no two CreateUser requests for one email have both been
\* answered 201 with the two users they made live under that email.
C17_IndexedEmailUnique ==
    /\ \A a, b \in hUsers : a # b => objects[a].Email # objects[b].Email
    /\ \A p, q \in Callers :
        (/\ p # q
         /\ hpc[p] = "idle" /\ hpc[q] = "idle"
         /\ hreq[p].op = "CreateUser" /\ hreq[q].op = "CreateUser"
         /\ hreq[p].email = hreq[q].email
         /\ hres[p].status = 201 /\ hres[q].status = 201)
            => ~(/\ {hres[p].id, hres[q].id} \subseteq hUsers
                 /\ objects[hres[p].id].Email = hreq[p].email
                 /\ objects[hres[q].id].Email = hreq[q].email)

----------------------------------------------------------------------------
(* middleware.RateLimiter: the gin middleware with its own map and mutex.    *)
(* The section between mutex.Lock() and mutex.Unlock() is one step; the test  *)
(* of entry.requests comes after the Unlock and is a step of its own.         *)

\* RateLimiter(requests, window)
Requests == 1
Window == 1

ClientIPs == {"10.0.0.1", "10.0.0.2"}

RateLimiterEntry(requests, window) == [requests |-> requests, window |-> window]

StatusTooManyRequests == 429

\* the time passes
Tick ==
    /\ wallClock < MaxClock
    /\ wallClock' = wallClock + 1
    /\ UNCHANGED <<store, rpc, rreq, rout, admitted, notLimiter>>

\* requests of client ip that are counted in its entry or are about to be
Counted(ip) ==
    (IF ip \in DOMAIN store THEN store[ip].requests ELSE 0)
        + Cardinality({q \in Callers : rpc[q] = "count" /\ rreq[q].clientIP = ip})

\* lines 24-25: clientIP := c.ClientIP(); now := time.Now()
\* (the first conjunct bounds the counter)
LimiterArrive(p, clientIP) ==
    /\ Counted(clientIP) < MaxCount
    /\ rpc[p] = "idle"
    /\ rreq' = [rreq EXCEPT ![p] = LimiterRequest(clientIP, wallClock, 0)]
    /\ rout' = [rout EXCEPT ![p] = 0]
    /\ rpc' = [rpc EXCEPT ![p] = "count"]
    /\ UNCHANGED <<store, wallClock, admitted, notLimiter>>

\* lines 27-44: the entry is made, reset or incremented under the mutex
LimiterCount(p) ==
    /\ rpc[p] = "count"
    /\ LET ip == rreq[p].clientIP
           now == rreq[p].now
           entry == IF ip \notin DOMAIN store
                    THEN RateLimiterEntry(1, now + Window)
                    ELSE IF now > store[ip].window
                    THEN RateLimiterEntry(1, now + Window)
                    ELSE RateLimiterEntry(store[ip].requests + 1, store[ip].window)
       IN /\ store' = MapSet(store, ip, entry)
          /\ rreq' = [rreq EXCEPT ![p].counted = entry.window]
    /\ rpc' = [rpc EXCEPT ![p] = "check"]
    /\ UNCHANGED <<wallClock, rout, admitted, notLimiter>>

\* lines 46-56: entry.requests is read without the mutex; 429 and Abort, or Next
LimiterCheck(p) ==
    /\ rpc[p] = "check"
    /\ LET ip == rreq[p].clientIP
           key == <<ip, rreq[p].counted>>
       IN IF store[ip].requests > Requests
          THEN /\ rout' = [rout EXCEPT ![p] = StatusTooManyRequests]
               /\ admitted' = admitted
          ELSE /\ rout' = [rout EXCEPT ![p] = StatusOK]
               /\ admitted' = MapSet(admitted, key,
                                     IF key \in DOMAIN admitted THEN admitted[key] + 1 ELSE 1)
    /\ rpc' = [rpc EXCEPT ![p] = "idle"]
    /\ UNCHANGED <<store, wallClock, rreq, notLimiter>>

NextLimiter ==
    \/ Tick
    \/ \E p \in Callers :
        \/ \E clientIP \in ClientIPs : LimiterArrive(p, clientIP)
        \/ LimiterCount(p)
        \/ LimiterCheck(p)

SpecLimiter == Init /\ [][NextLimiter]_vars

\* requests that have arrived are served, and the time goes on
LimiterFairness ==
    /\ WF_vars(Tick)
    /\ \A p \in Callers : WF_vars(LimiterCount(p)) /\ WF_vars(LimiterCheck(p))

SpecLimiterFair == Init /\ [][NextLimiter]_vars /\ LimiterFairness

\* C18: the middleware lets through at most `requests` requests of one client
\* IP among those it counted in one window, also when requests of that client
\* are handled concurrently.
C18_AtMostRequestsPerWindow ==
    \A key \in DOMAIN admitted : admitted[key] <= Requests

\* the window of client ip's entry is over
Expired(ip) == ip \in DOMAIN store /\ wallClock > store[ip].window

\* C19: an entry whose window has expired is eventually removed from the store,
\* also when its client sends no further request.
C19_ExpiredEntryRemoved ==
    \A ip \in ClientIPs : Expired(ip) ~> (ip \notin DOMAIN store)

----------------------------------------------------------------------------
(* httpserver: the chi router of NewRouter, with httprate.LimitByIP on the   *)
(* /api/v1 subrouter.                                                        *)

HealthPaths == {"/healthz", "/readyz"}

Paths == HealthPaths \cup {"/api/v1/ping", "/api/v1/users", "/test/logs", "/", "/nowhere"}

HasPrefix(s, prefix) ==
    Len(s) >= Len(prefix) /\ SubSeq(s, 1, Len(prefix)) = prefix

\* the paths that have a handler
HasRoute(path) == path \in Paths \ {"/nowhere"}

\* the rate limit put on every route
UnderAPIRateEverywhere(path) == TRUE

\* setupRoutes: r.Use(apiRate) inside r.Route("/api/v1", ...)
UnderAPIRate(path) == HasPrefix(path, "/api/v1")

\* setupRateLimiting: httprate.LimitByIP(cfg.RateLimit, period) when enabled,
\* else the handler as it is
LimitReached(clientIP) ==
    /\ cfg.RateLimitEnabled
    /\ clientIP \in DOMAIN hits
    /\ hits[clientIP] >= cfg.RateLimit

\* NewRouter(cfg, appLogger)
NewRouter(c) ==
    /\ cfg = NoConfig
    /\ cfg' = c
    /\ UNCHANGED <<hits, served, notRouter>>

\* a request goes through the router
RouterServe(clientIP, path) ==
    /\ cfg # NoConfig
    /\ IF ~HasRoute(path)
       THEN /\ served' = Routed(clientIP, path, StatusNotFound)
            /\ hits' = hits
       ELSE IF UnderAPIRate(path) /\ cfg.RateLimitEnabled
       THEN IF LimitReached(clientIP)
            THEN /\ served' = Routed(clientIP, path, StatusTooManyRequests)
                 /\ hits' = hits
            ELSE /\ served' = Routed(clientIP, path, StatusOK)
                 /\ hits' = MapSet(hits, clientIP,
                                   IF clientIP \in DOMAIN hits THEN hits[clientIP] + 1 ELSE 1)
       ELSE /\ served' = Routed(clientIP, path, StatusOK)
            /\ hits' = hits
    /\ UNCHANGED <<cfg, notRouter>>

\* the period of httprate is over: the counts start again
PeriodEnds ==
    /\ hits # << >>
    /\ hits' = << >>
    /\ UNCHANGED <<cfg, served, notRouter>>

NextRouter ==
    \/ \E c \in Configs : NewRouter(c)
    \/ \E clientIP \in ClientIPs, path \in Paths : RouterServe(clientIP, path)
    \/ PeriodEnds

SpecRouter == Init /\ [][NextRouter]_vars

\* C20: with rate limiting enabled, at any limit, a request to /healthz or
\* /readyz is never answered 429 and leaves every client's count as it is, for
\* any sequence of requests.
C20_HealthNotRateLimited ==
    [][\A clientIP \in ClientIPs, path \in HealthPaths :
        (cfg.RateLimitEnabled /\ RouterServe(clientIP, path)) =>
            /\ served'.status # 429
            /\ hits' = hits]_vars

\* a client whose count on /api/v1 has reached the limit is answered 200 on
\* /healthz
C20_Witness ==
    /\ cfg.RateLimitEnabled
    /\ served.path = "/healthz"
    /\ served.status = 200
    /\ served.clientIP \in DOMAIN hits
    /\ hits[served.clientIP] >= cfg.RateLimit

----------------------------------------------------------------------------
(* httpserver.RequestID and the response package: one request goes through   *)
(* the middleware, which picks its ID, and then through a handler that        *)
(* answers with response.JSON or response.Error.                              *)

\* the characters of requestIDPattern, ^[A-Za-z0-9_.:-]{1,128}$
RequestIDChars ==
    {"a", "b", "c", "d", "e", "f", "g", "h", "i", "j", "k", "l", "m",
     "n", "o", "p", "q", "r", "s", "t", "u", "v", "w", "x", "y", "z",
     "A", "B", "C", "D", "E", "F", "G", "H", "I", "J", "K", "L", "M",
     "N", "O", "P", "Q", "R", "S", "T", "U", "V", "W", "X", "Y", "Z",
     "0", "1", "2", "3", "4", "5", "6", "7", "8", "9", "_", ".", ":", "-"}

MaxRequestIDLen == 128

\* requestIDPattern.MatchString(s)
MatchString(s) ==
    /\ Len(s) >= 1
    /\ Len(s) <= MaxRequestIDLen
    /\ \A i \in 1..Len(s) : SubSeq(s, i, i) \in RequestIDChars

\* the white space strings.TrimSpace removes, as far as a header can hold it
WhiteSpace == {" ", "\t"}

TrimLeft(s) ==
    IF s # "" /\ SubSeq(s, 1, 1) \in WhiteSpace THEN TrimLeft(SubSeq(s, 2, Len(s))) ELSE s

TrimRight(s) ==
    IF s # "" /\ SubSeq(s, Len(s), Len(s)) \in WhiteSpace
    THEN TrimRight(SubSeq(s, 1, Len(s) - 1))
    ELSE s

\* strings.TrimSpace(s)
TrimSpace(s) == TrimRight(TrimLeft(s))

\* what the fallback of pickRequestID can return: hex.EncodeToString of 16
\* random bytes, or "unknown" when rand.Read fails
RandomIDs ==
    {"00000000000000000000000000000000", "9f86d081884c7d659a2feaa0c55ad015", "unknown"}

\* the header values a client sends
HeaderValues ==
    {"", " ", "frontend-123", " frontend-123 ", "corr:42", "bad id", "bad!",
     Repeat("a", MaxRequestIDLen), Repeat("a", MaxRequestIDLen + 1)}

\* the key RequestID stores the ID under: requestid.ctxKey{} in the build
\* that uses package requestid, httpserver.ctxKey("request_id") in the other
RequestIDKeys ==
    {ContextKey("requestid.ctxKey", ""), ContextKey("httpserver.ctxKey", "request_id")}

\* requestIDKey of package response
ResponseRequestIDKey == ContextKey("response.ctxKey", "request_id")

\* ctx.Value(key), "" standing for nil
Value(ctx, key) == IF key \in DOMAIN ctx.values THEN ctx.values[key] ELSE ""

\* requestid.FromContext / httpserver.GetRequestID: what a handler behind the
\* middleware reads
FromContext(ctx) ==
    IF \E key \in RequestIDKeys : key \in DOMAIN ctx.values
    THEN ctx.values[CHOOSE key \in RequestIDKeys : key \in DOMAIN ctx.values]
    ELSE ""

\* response.GetRequestID(ctx)
GetRequestID(ctx) == Value(ctx, ResponseRequestIDKey)

\* the ID pickRequestID takes from the headers, before it tests it
ClientID(h) ==
    LET rid == TrimSpace(h.xRequestID)
    IN IF rid = "" THEN TrimSpace(h.xCorrelationID) ELSE rid

\* pickRequestID that trusts whatever the client sent
pickRequestIDUnchecked(h, random) ==
    IF ClientID(h) # "" THEN ClientID(h) ELSE random

\* pickRequestID(r), with `random` what the fallback would draw
pickRequestID(h, random) ==
    IF ClientID(h) # "" /\ MatchString(ClientID(h)) THEN ClientID(h) ELSE random

\* a request arrives with its headers
RequestArrives(h) ==
    /\ qpc \in {"idle", "done"}
    /\ qpc' = "RequestID"
    /\ qreq' = h
    /\ qctx' = NoContext
    /\ qw' = NoWriter
    /\ generated' = ""
    /\ UNCHANGED notRequest

\* the RequestID middleware, up to its call of next.ServeHTTP
RequestID(key, random) ==
    /\ qpc = "RequestID"
    /\ LET rid == pickRequestID(qreq, random) IN
        /\ qw' = [qw EXCEPT !.xRequestID = rid]
        /\ qctx' = [qctx EXCEPT !.values = MapSet(qctx.values, key, rid)]
        /\ generated' = IF pickRequestID(qreq, "") = "" THEN random ELSE ""
    /\ qpc' = "next"
    /\ UNCHANGED <<qreq, notRequest>>

\* the request's context is canceled: the timeout passes or the client goes away
Cancel ==
    /\ qpc \in {"RequestID", "next"}
    /\ ~qctx.canceled
    /\ qctx' = [qctx EXCEPT !.canceled = TRUE]
    /\ UNCHANGED <<qpc, qreq, qw, generated, notRequest>>

\* response.JSON(w, r, status, v) on the writer w, with rid the request_id of v
JSON(w, status, rid) ==
    [w EXCEPT !.writeHeaderCalls = @ + 1, !.status = status, !.requestID = rid]

\* response.Error(w, r, status, ...) of internal/response/response.go
Error(w, ctx, h, status) ==
    LET fromContext == GetRequestID(ctx)
        rid == IF fromContext # "" THEN fromContext
               ELSE IF h.xRequestID # "" THEN h.xRequestID
               ELSE h.xCorrelationID
    IN JSON(w, status, rid)

\* response.Error of the build that reads the request headers only
ErrorFromHeaders(w, h, status) ==
    JSON(w, status, IF h.xRequestID # "" THEN h.xRequestID ELSE h.xCorrelationID)

\* the handler behind the middleware answers with response.JSON
HandlerJSON ==
    /\ qpc = "next"
    /\ qw' = JSON(qw, StatusOK, "")
    /\ qpc' = "done"
    /\ UNCHANGED <<qreq, qctx, generated, notRequest>>

\* the handler behind the middleware answers with response.Error
HandlerError ==
    /\ qpc = "next"
    /\ \/ qw' = Error(qw, qctx, qreq, StatusBadRequest)
       \/ qw' = ErrorFromHeaders(qw, qreq, StatusBadRequest)
    /\ qpc' = "done"
    /\ UNCHANGED <<qreq, qctx, generated, notRequest>>

NextRequest ==
    \/ \E x, c \in HeaderValues : RequestArrives(Headers(x, c))
    \/ \E key \in RequestIDKeys, random \in RandomIDs : RequestID(key, random)
    \/ Cancel
    \/ HandlerJSON
    \/ HandlerError

SpecRequest == Init /\ [][NextRequest]_vars

\* the middleware has run for the request at hand
PastRequestID == qpc \in {"next", "done"}

\* C21 as stated: the X-Request-ID response header equals the ID stored in the
\* request context, and that ID is the client's X-Request-ID when it is
\* non-empty and matches the pattern, otherwise the client's X-Correlation-ID
\* when X-Request-ID is empty and the correlation ID matches, otherwise a
\* non-empty ID the server generated.
C21_EchoedIDIsClientOrGenerated ==
    PastRequestID =>
        LET rid == qw.xRequestID IN
        /\ rid = FromContext(qctx)
        /\ IF qreq.xRequestID # "" /\ MatchString(qreq.xRequestID)
           THEN rid = qreq.xRequestID
           ELSE IF qreq.xRequestID = "" /\ MatchString(qreq.xCorrelationID)
           THEN rid = qreq.xCorrelationID
           ELSE rid = generated /\ rid # ""

\* C21, with the headers read the way pickRequestID reads them: the
\* X-Request-ID response header equals the ID stored in the request context,
\* and that ID is the client's X-Request-ID with the white space around it
\* removed when that is non-empty and matches the pattern, otherwise the
\* client's X-Correlation-ID with the white space around it removed when the
\* trimmed X-Request-ID is empty and the trimmed correlation ID matches,
\* otherwise a non-empty ID the server generated.
C21_EchoedIDIsTrimmedClientOrGenerated ==
    PastRequestID =>
        LET rid == qw.xRequestID
            x == TrimSpace(qreq.xRequestID)
            c == TrimSpace(qreq.xCorrelationID)
        IN
        /\ rid = FromContext(qctx)
        /\ IF x # "" /\ MatchString(x)
           THEN rid = x
           ELSE IF x = "" /\ MatchString(c)
           THEN rid = c
           ELSE rid = generated /\ rid # ""

\* the client sent an X-Request-ID with blanks around it, and the middleware
\* answered and stored it without them
C21_Witness ==
    /\ PastRequestID
    /\ qreq.xRequestID = " frontend-123 "
    /\ qw.xRequestID = "frontend-123"
    /\ FromContext(qctx) = "frontend-123"

\* the handler has answered with response.Error
AnsweredError == qpc = "done" /\ qw.status = StatusBadRequest

\* C22: a request with no X-Request-ID and no X-Correlation-ID header that
\* went through the RequestID middleware and was answered by response.Error
\* carries in the request_id field of the error body the ID of the
\* X-Request-ID response header.
C22_GeneratedIDReachesErrorBody ==
    (AnsweredError /\ qreq = NoHeaders) => qw.requestID = qw.xRequestID

\* C25: response.JSON called on a request whose context is already canceled
\* calls WriteHeader zero times.
C25_CanceledJSONWritesNothing ==
    (qpc = "done" /\ qctx.canceled) => qw.writeHeaderCalls = 0

----------------------------------------------------------------------------
(* services.statsService and httpserver.ConnectionsMiddleware: the counter  *)
(* is an atomic.Int64, so every Add and Load is one step.                    *)

\* s.IncrementActiveConnections(), called by anyone who holds the service
IncrementActiveConnections ==
    /\ activeConnections < MaxActive + MaxConns
    /\ activeConnections' = activeConnections + 1
    /\ UNCHANGED <<apiStats, cpc, cout, notStats>>

\* s.DecrementActiveConnections(), called by anyone who holds the service
DecrementActiveConnections ==
    /\ activeConnections > -MaxActive
    /\ activeConnections' = activeConnections - 1
    /\ UNCHANGED <<apiStats, cpc, cout, notStats>>

\* GetAPIStats that reports what it loaded
ReportedUnclamped(loaded) == loaded

\* the active_connections GetAPIStats reports for the value it loaded
Reported(loaded) == IF loaded < 0 THEN 0 ELSE loaded

\* s.GetAPIStats(ctx)
GetAPIStats ==
    /\ apiStats' = APIStats(activeConnections, Reported(activeConnections))
    /\ UNCHANGED <<activeConnections, cpc, cout, notStats>>

\* the middleware that forgets a request whose handler panics
DeferredUnlessPanic(outcome) == IF outcome = "panicked" THEN 0 ELSE -1

\* what the deferred DecrementActiveConnections adds, whichever way the
\* handler ended
Deferred(outcome) == -1

\* ConnectionsMiddleware: a request enters and is counted
ConnectionsEnter(c) ==
    /\ cpc[c] = "idle"
    /\ activeConnections' = activeConnections + 1
    /\ cpc' = [cpc EXCEPT ![c] = "next"]
    /\ cout' = [cout EXCEPT ![c] = "none"]
    /\ UNCHANGED <<apiStats, notStats>>

\* next.ServeHTTP(w, r) returns, or panics
ConnectionsNext(c, outcome) ==
    /\ cpc[c] = "next"
    /\ cpc' = [cpc EXCEPT ![c] = "defer"]
    /\ cout' = [cout EXCEPT ![c] = outcome]
    /\ UNCHANGED <<activeConnections, apiStats, notStats>>

\* the deferred call runs as the middleware's function ends
ConnectionsLeave(c) ==
    /\ cpc[c] = "defer"
    /\ activeConnections' = activeConnections + Deferred(cout[c])
    /\ cpc' = [cpc EXCEPT ![c] = "idle"]
    /\ UNCHANGED <<apiStats, cout, notStats>>

ConnectionsRequest(c) ==
    \/ ConnectionsEnter(c)
    \/ \E outcome \in {"returned", "panicked"} : ConnectionsNext(c, outcome)
    \/ ConnectionsLeave(c)

\* the middleware is the only caller of the two counting methods
NextConnections ==
    \/ \E c \in Conns : ConnectionsRequest(c)
    \/ GetAPIStats

SpecConnections == Init /\ [][NextConnections]_vars

\* the counting methods are also called from outside the middleware
NextStats ==
    \/ IncrementActiveConnections
    \/ DecrementActiveConnections
    \/ NextConnections

SpecStats == Init /\ [][NextStats]_vars

\* C23: the active_connections value GetAPIStats reports is never negative,
\* whatever calls of IncrementActiveConnections and DecrementActiveConnections
\* came before it, more decrements than increments included.
C23_ActiveConnectionsNonNegative ==
    apiStats # NoAPIStats => apiStats.active_connections >= 0

\* GetAPIStats was called after more decrements than increments
C23_Witness ==
    /\ apiStats # NoAPIStats
    /\ apiStats.loaded < 0
    /\ apiStats.active_connections = 0

\* the requests between the middleware's increment and its decrement
InFlight == {c \in Conns : cpc[c] \in {"next", "defer"}}

\* C30: with the middleware the only caller, activeConnections is the number
\* of requests between its increment and its decrement, in every state; it is
\* zero whenever no request is in flight, also after handlers that panicked.
C30_CounterIsRequestsInFlight ==
    /\ activeConnections = Cardinality(InFlight)
    /\ InFlight = {} => activeConnections = 0

\* a request whose handler panicked has left, another is still in flight, and
\* the counter is one
C30_Witness ==
    \E c, d \in Conns :
        /\ cpc[c] = "idle" /\ cout[c] = "panicked"
        /\ cpc[d] = "next"
        /\ InFlight = {d}
        /\ activeConnections = 1

\* caller p's UpdateUser has found its record and asks for the email that this
\* record holds already, and that no other live record holds
UpdateToOwnEmail(p) ==
    /\ UpdateWrites(p)
    /\ call[p].op = "UpdateUser"
    /\ call[p].id \in Live
    /\ Provided(call[p].updates, "email")
    /\ Record(call[p].id).Email = call[p].updates["email"].s
    /\ \A uid \in Live \ {call[p].id} : Record(uid).Email # call[p].updates["email"].s

\* C26: UpdateUser(id, {email: e}) with e the Email of record id itself, and
\* of no other live record, passes the uniqueness scan and returns the record
\* without error, its Email still e.
C26_OwnEmailPassesScan ==
    [][\A p \in Callers :
        UpdateToOwnEmail(p) =>
            /\ pc[p] = "check" => pc'[p] = "commit"
            /\ pc[p] = "commit" =>
                /\ pc'[p] = "idle"
                /\ ret'[p].err = NilErr
                /\ ret'[p].user # Nil
                /\ heap'[ret'[p].user].Email = call[p].updates["email"].s
                /\ users' = users
                /\ heap'[users'[call[p].id]].Email = call[p].updates["email"].s]_vars

\* an UpdateUser that asked for its record's own email is past the scan
C26_Witness ==
    \E p \in Callers : UpdateToOwnEmail(p) /\ pc[p] = "commit"

----------------------------------------------------------------------------
(* The gin user handlers over the package-level slice `users` and the        *)
(* counter `nextUserID`. Nothing guards the two variables: every read and    *)
(* every write of one of them is a step of its own, and the handlers of      *)
(* concurrent requests interleave between them.                              *)

Digits == {"0", "1", "2", "3", "4", "5", "6", "7", "8", "9"}

DigitValue(d) ==
    CASE d = "0" -> 0 [] d = "1" -> 1 [] d = "2" -> 2 [] d = "3" -> 3 [] d = "4" -> 4
      [] d = "5" -> 5 [] d = "6" -> 6 [] d = "7" -> 7 [] d = "8" -> 8 [] d = "9" -> 9

DecimalValue(s) ==
    IF s = "" THEN 0
    ELSE 10 * DecimalValue(SubSeq(s, 1, Len(s) - 1)) + DigitValue(SubSeq(s, Len(s), Len(s)))

\* strconv.Atoi(s), for the ids a path can hold here
Atoi(s) ==
    IF s # "" /\ \A i \in 1..Len(s) : SubSeq(s, i, i) \in Digits
    THEN [n |-> DecimalValue(s), err |-> FALSE]
    ELSE [n |-> 0, err |-> TRUE]

\* the requests made one at a time
GinSeqLoad ==
    [names |-> {"", "New User"},
     ids |-> {"1", "2", "abc"},
     createEmails |-> {"", "john@example.com", "new@example.com"},
     updateEmails |-> {"", "john@example.com"}]

\* the requests made concurrently
GinConcLoad ==
    [names |-> {"New User"},
     ids |-> {"1", "3", "abc"},
     createEmails |-> {"", "new@example.com", "other@example.com"},
     updateEmails |-> {}]

\* c.ShouldBindJSON(&req) of CreateUser succeeds
BindsCreate(email, name) == name # "" /\ email # "" /\ IsEmail(email)

\* c.ShouldBindJSON(&req) of UpdateUser succeeds
BindsUpdate(email, name) == email = "" \/ IsEmail(email)

\* the first index of the slice whose user has this ID, 0 when none has
IndexOfID(slice, id) ==
    IF \E i \in 1..Len(slice) : slice[i].ID = id
    THEN CHOOSE i \in 1..Len(slice) :
            /\ slice[i].ID = id
            /\ \A j \in 1..(i - 1) : slice[j].ID # id
    ELSE 0

\* append(slice[:i], slice[i+1:]...)
RemoveAt(slice, i) == SubSeq(slice, 1, i - 1) \o SubSeq(slice, i + 1, Len(slice))

GinGoto(p, where) == gpc' = [gpc EXCEPT ![p] = where]

GinAnswer(p, status) ==
    /\ gres' = [gres EXCEPT ![p] = status]
    /\ gpc' = [gpc EXCEPT ![p] = "idle"]

\* CreateUser, lines 75-79: the body is bound
GinCreateUser(p, email, name) ==
    /\ gpc[p] = "idle"
    /\ Len(gUsers) < MaxGinUsers
    /\ nextUserID < MaxNextUserID
    /\ greq' = [greq EXCEPT ![p] = GinRequest("CreateUser", "", email, name)]
    /\ glocal' = [glocal EXCEPT ![p] = NoGinLocals]
    /\ IF BindsCreate(email, name)
       THEN GinGoto(p, "scan") /\ gres' = [gres EXCEPT ![p] = 0]
       ELSE GinAnswer(p, StatusBadRequest)
    /\ UNCHANGED <<gUsers, nextUserID, notGin>>

\* CreateUser, lines 82-87: the loop over users
GinCreateScan(p) ==
    /\ gpc[p] = "scan"
    /\ IF \E i \in 1..Len(gUsers) : gUsers[i].Email = greq[p].email
       THEN GinAnswer(p, StatusConflict)
       ELSE GinGoto(p, "build") /\ UNCHANGED gres
    /\ UNCHANGED <<gUsers, nextUserID, greq, glocal, notGin>>

\* CreateUser, lines 89-95: the user is made with the nextUserID read here
GinCreateBuild(p) ==
    /\ gpc[p] = "build"
    /\ glocal' = [glocal EXCEPT ![p].user = GinUser(nextUserID, greq[p].name, greq[p].email)]
    /\ GinGoto(p, "append")
    /\ UNCHANGED <<gUsers, nextUserID, greq, gres, notGin>>

\* CreateUser, line 97: append reads users
GinCreateAppend(p) ==
    /\ gpc[p] = "append"
    /\ glocal' = [glocal EXCEPT ![p].users = gUsers]
    /\ GinGoto(p, "store")
    /\ UNCHANGED <<gUsers, nextUserID, greq, gres, notGin>>

\* CreateUser, line 97: the result of append is assigned to users
GinCreateStore(p) ==
    /\ gpc[p] = "store"
    /\ gUsers' = Append(glocal[p].users, glocal[p].user)
    /\ GinGoto(p, "load")
    /\ UNCHANGED <<nextUserID, greq, glocal, gres, notGin>>

\* CreateUser, line 98: nextUserID++ reads the counter
GinCreateLoad(p) ==
    /\ gpc[p] = "load"
    /\ glocal' = [glocal EXCEPT ![p].n = nextUserID]
    /\ GinGoto(p, "increment")
    /\ UNCHANGED <<gUsers, nextUserID, greq, gres, notGin>>

\* CreateUser, lines 98-100: nextUserID++ writes the counter, 201 is answered
GinCreateIncrement(p) ==
    /\ gpc[p] = "increment"
    /\ nextUserID' = glocal[p].n + 1
    /\ GinAnswer(p, StatusCreated)
    /\ UNCHANGED <<gUsers, greq, glocal, notGin>>

\* UpdateUser, lines 116-127: the id is parsed and the body bound
GinUpdateUser(p, id, email, name) ==
    /\ gpc[p] = "idle"
    /\ greq' = [greq EXCEPT ![p] = GinRequest("UpdateUser", id, email, name)]
    /\ glocal' = [glocal EXCEPT ![p] = NoGinLocals]
    /\ IF Atoi(id).err \/ ~BindsUpdate(email, name)
       THEN GinAnswer(p, StatusBadRequest)
       ELSE GinGoto(p, "find") /\ gres' = [gres EXCEPT ![p] = 0]
    /\ UNCHANGED <<gUsers, nextUserID, notGin>>

\* UpdateUser, lines 129-130 and 144: the loop finds the index of the user
GinUpdateFind(p) ==
    /\ gpc[p] = "find"
    /\ LET i == IndexOfID(gUsers, Atoi(greq[p].id).n) IN
        IF i = 0
        THEN GinAnswer(p, StatusNotFound) /\ UNCHANGED glocal
        ELSE /\ glocal' = [glocal EXCEPT ![p].i = i]
             /\ GinGoto(p, "write")
             /\ UNCHANGED gres
    /\ UNCHANGED <<gUsers, nextUserID, greq, notGin>>

\* UpdateUser, lines 134-136: the email users[i] gets
GinEmailToWrite(slice, i, email) == IF email # "" THEN email ELSE slice[i].Email

\* UpdateUser, lines 131-140: users[i] is written; an index past the end of
\* the slice panics, which gin answers with 500
GinUpdateWrite(p) ==
    /\ gpc[p] = "write"
    /\ LET i == glocal[p].i IN
        IF i > Len(gUsers)
        THEN GinAnswer(p, StatusInternalServerError) /\ UNCHANGED gUsers
        ELSE /\ gUsers' = [gUsers EXCEPT
                    ![i].Name = IF greq[p].name # "" THEN greq[p].name ELSE @,
                    ![i].Email = GinEmailToWrite(gUsers, i, greq[p].email)]
             /\ GinAnswer(p, StatusOK)
    /\ UNCHANGED <<nextUserID, greq, glocal, notGin>>

\* DeleteUser, lines 158-163: the id is parsed
GinDeleteUser(p, id) ==
    /\ gpc[p] = "idle"
    /\ greq' = [greq EXCEPT ![p] = GinRequest("DeleteUser", id, "", "")]
    /\ glocal' = [glocal EXCEPT ![p] = NoGinLocals]
    /\ IF Atoi(id).err
       THEN GinAnswer(p, StatusBadRequest)
       ELSE GinGoto(p, "delete") /\ gres' = [gres EXCEPT ![p] = 0]
    /\ UNCHANGED <<gUsers, nextUserID, notGin>>

\* DeleteUser, lines 165-167 and 173: the loop finds the user in the slice it read
GinDeleteFind(p) ==
    /\ gpc[p] = "delete"
    /\ LET i == IndexOfID(gUsers, Atoi(greq[p].id).n) IN
        IF i = 0
        THEN GinAnswer(p, StatusNotFound) /\ UNCHANGED glocal
        ELSE /\ glocal' = [glocal EXCEPT ![p].users = gUsers, ![p].i = i]
             /\ GinGoto(p, "remove")
             /\ UNCHANGED gres
    /\ UNCHANGED <<gUsers, nextUserID, greq, notGin>>

\* DeleteUser, lines 167-168: the shortened slice is assigned to users
GinDeleteRemove(p) ==
    /\ gpc[p] = "remove"
    /\ gUsers' = RemoveAt(glocal[p].users, glocal[p].i)
    /\ GinAnswer(p, StatusNoContent)
    /\ UNCHANGED <<nextUserID, greq, glocal, notGin>>

GinCreates(p, load) ==
    \/ \E email \in load.createEmails, name \in load.names : GinCreateUser(p, email, name)
    \/ GinCreateScan(p)
    \/ GinCreateBuild(p)
    \/ GinCreateAppend(p)
    \/ GinCreateStore(p)
    \/ GinCreateLoad(p)
    \/ GinCreateIncrement(p)

GinUpdates(p, load) ==
    \/ \E id \in load.ids, email \in load.updateEmails, name \in load.names :
            GinUpdateUser(p, id, email, name)
    \/ GinUpdateFind(p)
    \/ GinUpdateWrite(p)

GinDeletes(p, load) ==
    \/ \E id \in load.ids : GinDeleteUser(p, id)
    \/ GinDeleteFind(p)
    \/ GinDeleteRemove(p)

\* one request at a time
NextGinSeq ==
    \/ GinCreates(MainCaller, GinSeqLoad)
    \/ GinUpdates(MainCaller, GinSeqLoad)
    \/ GinDeletes(MainCaller, GinSeqLoad)

SpecGinSeq == Init /\ [][NextGinSeq]_vars

\* concurrent CreateUser and DeleteUser requests
NextGin == \E p \in Callers : GinCreates(p, GinConcLoad) \/ GinDeletes(p, GinConcLoad)

SpecGin == Init /\ [][NextGin]_vars

\* C27: after any sequence of CreateUser, UpdateUser and DeleteUser requests,
\* served one at a time, no two users of the slice have the same Email.
C27_GinUniqueEmail ==
    \A i, j \in 1..Len(gUsers) : i # j => gUsers[i].Email # gUsers[j].Email

\* C28: under any interleaving of concurrent CreateUser and DeleteUser
\* requests, no two users of the slice have the same ID.
C28_GinDistinctIDs ==
    \A i, j \in 1..Len(gUsers) : i # j => gUsers[i].ID # gUsers[j].ID

\* C29: in the store with the email index, in every state between the locked
\* sections of the handlers, emailIndex[e] = id exactly when users[id] is live
\* and has Email e, under any interleaving of CreateUser, UpdateUser and
\* DeleteUser requests.
C29_IndexAgreesWithUsers ==
    \A id \in DOMAIN objects :
        \A e \in DOMAIN emailIndex \cup {objects[a].Email : a \in hUsers} :
            (e \in DOMAIN emailIndex /\ emailIndex[e] = id)
                <=> (id \in hUsers /\ objects[id].Email = e)

----------------------------------------------------------------------------
(* cmd/api/main.go: the server is started in the background, main waits     *)
(* for SIGINT or SIGTERM, calls srv.Shutdown with a deadline, and srv.Close  *)
(* when Shutdown fails. Of http.Server the model keeps what main relies on:  *)
(* Shutdown closes the listener at once, returns nil when no connection has  *)
(* a request in flight and the context's error when the deadline passes      *)
(* first; Close closes every connection.                                     *)

Active == {c \in Conns : conn[c] = "active"}

\* the goroutine of lines 62-68: srv.ListenAndServe() has its listener
ListenAndServe ==
    /\ mainpc \in {"quit", "signalled"}
    /\ listener = "starting"
    /\ listener' = "listening"
    /\ UNCHANGED <<mainpc, conn, shutdownErr, atShutdown, notServer>>

\* the goroutine of lines 62-68: srv.ListenAndServe() fails, os.Exit(1)
ListenFails ==
    /\ mainpc \in {"quit", "signalled"}
    /\ listener = "starting"
    /\ listener' = "failed"
    /\ mainpc' = "exited"
    /\ UNCHANGED <<conn, shutdownErr, atShutdown, notServer>>

\* the server accepts a request on a connection
Accept(c) ==
    /\ listener = "listening"
    /\ conn[c] \in {"none", "done"}
    /\ conn' = [conn EXCEPT ![c] = "active"]
    /\ UNCHANGED <<mainpc, listener, shutdownErr, atShutdown, notServer>>

\* the handler of a request returns and the response is written
Complete(c) ==
    /\ conn[c] = "active"
    /\ mainpc \notin {"stopped", "exited"}
    /\ conn' = [conn EXCEPT ![c] = "done"]
    /\ UNCHANGED <<mainpc, listener, shutdownErr, atShutdown, notServer>>

\* lines 71-74: <-quit delivers SIGINT or SIGTERM
Signal ==
    /\ mainpc = "quit"
    /\ mainpc' = "signalled"
    /\ UNCHANGED <<listener, conn, shutdownErr, atShutdown, notServer>>

\* srv.Shutdown that leaves the listener open
ListenerKept(l) == l

\* what srv.Shutdown makes of the listener: it is closed, and a ListenAndServe
\* still to come returns ErrServerClosed
ListenerClosed(l) == "closed"

\* lines 76-78: srv.Shutdown(shutdownCtx) is called
Shutdown ==
    /\ mainpc = "signalled"
    /\ mainpc' = "Shutdown"
    /\ listener' = ListenerClosed(listener)
    /\ atShutdown' = Active
    /\ UNCHANGED <<conn, shutdownErr, notServer>>

\* line 78: Shutdown finds no request in flight and returns nil
ShutdownReturns ==
    /\ mainpc = "Shutdown"
    /\ Active = {}
    /\ shutdownErr' = "nil"
    /\ mainpc' = "stopping"
    /\ UNCHANGED <<listener, conn, atShutdown, notServer>>

\* line 78: the deadline of shutdownCtx passes and Shutdown returns its error
DeadlineExceeded ==
    /\ mainpc = "Shutdown"
    /\ shutdownErr' = "deadline"
    /\ mainpc' = "Close"
    /\ UNCHANGED <<listener, conn, atShutdown, notServer>>

\* lines 79-80: srv.Close() closes the connections that are left
Close ==
    /\ mainpc = "Close"
    /\ conn' = [c \in Conns |-> IF conn[c] = "active" THEN "closed" ELSE conn[c]]
    /\ mainpc' = "stopping"
    /\ UNCHANGED <<listener, shutdownErr, atShutdown, notServer>>

\* line 82: "server stopped" is logged and main returns
Stopped ==
    /\ mainpc = "stopping"
    /\ mainpc' = "stopped"
    /\ UNCHANGED <<listener, conn, shutdownErr, atShutdown, notServer>>

\* the steps main takes by itself once the signal is in
MainRuns == Shutdown \/ ShutdownReturns \/ Close \/ Stopped

NextServer ==
    \/ ListenAndServe
    \/ ListenFails
    \/ \E c \in Conns : Accept(c) \/ Complete(c)
    \/ Signal
    \/ MainRuns
    \/ DeadlineExceeded

SpecServer == Init /\ [][NextServer]_vars

\* main is scheduled, and the timer of shutdownCtx fires
ServerFairness == WF_vars(MainRuns) /\ WF_vars(DeadlineExceeded)

SpecServerFair == Init /\ [][NextServer]_vars /\ ServerFairness

\* main has called Shutdown for the signal
ShuttingDown == mainpc \in {"Shutdown", "Close", "stopping", "stopped"}

\* what holds of every state once Shutdown was called
GracefulShutdown ==
    /\ ShuttingDown => listener # "listening"
    /\ shutdownErr = "nil" =>
            /\ \A c \in atShutdown : conn[c] = "done"
            /\ \A c \in Conns : conn[c] # "closed"
    /\ \A c \in Conns : conn[c] = "closed" => shutdownErr = "deadline"
    /\ mainpc \in {"stopping", "stopped"} => Active = {}

\* a request is accepted in this step
Accepts == \E c \in Conns : conn[c] # "active" /\ conn'[c] = "active"

\* C24: once main has called Shutdown for the signal, no request is accepted
\* any more; when Shutdown returns nil every request that was in flight has
\* run to completion and no connection was closed; connections are closed
\* forcibly only after the deadline passed first, and then none is left with a
\* request in flight; and a signal that reaches a listening server leads to
\* "server stopped" either way.
C24_GracefulShutdown ==
    /\ []GracefulShutdown
    /\ [][ShuttingDown => ~Accepts]_vars
    /\ (mainpc = "signalled" /\ listener = "listening") ~> (mainpc = "stopped")

\* the server stopped after a Shutdown that returned nil, and a request that
\* was in flight when Shutdown was called has completed
C24_Witness ==
    /\ mainpc = "stopped"
    /\ shutdownErr = "nil"
    /\ atShutdown # {}
    /\ \A c \in atShutdown : conn[c] = "done"

\* the server stopped after the deadline passed, with a connection closed by
\* srv.Close()
C24_WitnessDeadline ==
    /\ mainpc = "stopped"
    /\ shutdownErr = "deadline"
    /\ \E c \in atShutdown : conn[c] = "closed"

====
